---- MODULE Spec2Model ----
(***************************************************************************)
(* pv-ratelimit: six rate limiting algorithms (fixed window, sliding       *)
(* window, sliding log, token bucket, leaky bucket, throttling), each on   *)
(* two backends: an in-process Map (the Memory classes) and Redis Lua      *)
(* scripts (the IORedis classes).                                          *)
(*                                                                         *)
(* A behaviour runs ONE limiter (algorithm, backend), chosen in Init, for  *)
(* one caller key, and for a second caller where two callers are          *)
(* compared.  A Memory call has no await inside: it reads the clock        *)
(* and updates the Map in one step.  An IORedis call reads the clock and   *)
(* builds KEYS/ARGV on the client (the issue step), and the script runs    *)
(* later on the server (RedisCommit), in any order with the other calls in *)
(* flight; Redis removes a key once the server clock passes its TTL.  A    *)
(* behaviour can also follow the run in which nothing is removed behind    *)
(* the limiter: no key expires and no sweep is called.                     *)
(***************************************************************************)
EXTENDS Integers, Sequences, FiniteSets, Bags, TLC

VARIABLES
    algorithm,   \* which limiter class this behaviour runs
    backend,     \* "memory" or "redis"
    clock,       \* ticks elapsed since the start of the behaviour
    mem,         \* the Memory limiter's Map: caller key -> per-key data
    redis,       \* the Redis keyspace: redis key -> [val, exp]
    pending,     \* bag of IORedis calls issued and not yet executed
    last,        \* the call that completed last, with the state around it
    admitted,    \* per timestamp: successful consume/throttle calls carrying it
    memNoRead,   \* the Map in the run that makes no read-only call
    redisNoRead, \* the keyspace in the run that makes no read-only call
    burst,       \* bookkeeping of one batch of same-instant concurrent calls
    calls,       \* number of calls made so far
    noRemoval,   \* the store of the run in which nothing is removed behind
                 \* the limiter: no key expires, no sweep is called
    granted,     \* TokenBucket: the tokens handed out by consume so far
    announced    \* Throttling: the nextAllowedAt that refused calls reported
                 \* since the last successful throttle

vars == <<algorithm, backend, clock, mem, redis, pending, last, admitted,
          memNoRead, redisNoRead, burst, calls, noRemoval, granted, announced>>

----------------------------------------------------------------------------
(* Bounds of the model *)

MaxTime == 5          \* the clock runs over 0..MaxTime ticks
MaxCalls == 4         \* calls made in one behaviour
MaxInFlight == 2      \* calls in flight to Redis at once; size of a burst
ShortTime == 3        \* ticks in the behaviours with failing store calls or two keys

(* A behaviour that follows a Memory limiter next to its run without      *)
(* removals is a behaviour of the sweeps (cleanup, cleanupAllExpired).     *)
(* A sweep only removes what has been idle for long: MemoryTokenBucket     *)
(* keeps a bucket for ten refill intervals, so there the bucket is wide    *)
(* enough not to be full again by then, and the clock ticks are long.      *)

Sweeping == noRemoval.on /\ backend = "memory"

WideBucket == Sweeping /\ algorithm = "TokenBucket"

(* Constructor arguments of the limiters under test *)

limit == 2            \* FixedWindow / SlidingWindow / SlidingLog: limit
interval == 2         \* ... and interval.seconds
\* TokenBucket / LeakyBucket: capacity
capacity == IF WideBucket THEN 12 ELSE 2
refillAmount == 1     \* TokenBucket
\* TokenBucket: refillInterval.seconds
refillInterval == IF WideBucket THEN 1 ELSE 2
minInterval == 60000  \* Throttling: minInterval.milliseconds

(* The clock.  Date.now() is EpochMs + clock * TickMs: a tick is one       *)
(* second, except for Throttling, whose Redis TTL is over a minute long    *)
(* and whose tick is half its minInterval, and for the sweeps of           *)
(* TokenBucket (eleven refill intervals a tick) and of SlidingWindow (a    *)
(* window and a half a tick), which remove nothing any sooner.             *)

EpochMs == 600000

TickMs ==
    CASE algorithm = "Throttling" -> 30000
      [] WideBucket -> 11000
      [] Sweeping /\ algorithm = "SlidingWindow" -> 3000
      [] OTHER -> 1000

DateNowAt(c) == EpochMs + c * TickMs

DateNow == DateNowAt(clock)

Key == "user1"

\* a second caller of the same limiter
OtherKey == "user2"

NoCall == [op |-> "none"]

Min(a, b) == IF a <= b THEN a ELSE b

Max(a, b) == IF a >= b THEN a ELSE b

\* Math.ceil(a / b) for a >= 0, b > 0
Ceil(a, b) == (a + b - 1) \div b

----------------------------------------------------------------------------
(* A JavaScript Map / the Redis keyspace as a function with a finite domain *)

Has(m, k) == k \in DOMAIN m

Put(m, k, v) == [x \in (DOMAIN m) \cup {k} |-> IF x = k THEN v ELSE m[x]]

Del(m, k) == [x \in (DOMAIN m) \ {k} |-> m[x]]

EmptyMap == << >>

(* Redis: a key with a TTL is gone once the server clock is past it. *)

NoExpiry == -1

Expired(entry, nowMs) == entry.exp # NoExpiry /\ nowMs > entry.exp

DropExpired(db, nowMs) ==
    [k \in {x \in DOMAIN db : ~Expired(db[x], nowMs)} |-> db[k]]

\* EXPIRE key seconds, executed when the server clock reads nowMs
EXPIRE(db, k, seconds, nowMs) ==
    IF Has(db, k) THEN Put(db, k, [db[k] EXCEPT !.exp = nowMs + seconds * 1000])
    ELSE db

\* INCR key: a missing key counts from 0 and is created without a TTL
INCR(db, k) ==
    IF Has(db, k) THEN Put(db, k, [db[k] EXCEPT !.val = @ + 1])
    ELSE Put(db, k, [val |-> 1, exp |-> NoExpiry])

\* GET key of a counter, with the scripts' "if not count then count = 0"
GETnum(db, k) == IF Has(db, k) THEN db[k].val ELSE 0

----------------------------------------------------------------------------
(* FixedWindow *)

getWindowStart(timestamp) == (timestamp \div interval) * interval

\* a faulty consume: a new window carries the count of the stored one over
MemoryFixedWindow_consume_keepCount(storage, key, nowMs) ==
    LET now == nowMs \div 1000
        windowStart == getWindowStart(now)
        windowData ==
            IF ~Has(storage, key) THEN [count |-> 0, windowStart |-> windowStart]
            ELSE [storage[key] EXCEPT !.windowStart = windowStart]
    IN  IF windowData.count >= limit
        THEN [st |-> storage, res |-> [success |-> FALSE, remaining |-> 0]]
        ELSE [st |-> Put(storage, key, [windowData EXCEPT !.count = @ + 1]),
              res |-> [success |-> TRUE,
                       remaining |-> limit - (windowData.count + 1)]]

MemoryFixedWindow_consume(storage, key, nowMs) ==
    LET now == nowMs \div 1000
        windowStart == getWindowStart(now)
        windowData ==
            IF ~Has(storage, key) \/ storage[key].windowStart # windowStart
            THEN [count |-> 0, windowStart |-> windowStart]
            ELSE storage[key]
    IN  IF windowData.count >= limit
        THEN [st |-> storage, res |-> [success |-> FALSE, remaining |-> 0]]
        ELSE [st |-> Put(storage, key, [windowData EXCEPT !.count = @ + 1]),
              res |-> [success |-> TRUE,
                       remaining |-> limit - (windowData.count + 1)]]

MemoryFixedWindow_getRemaining(storage, key, nowMs) ==
    LET now == nowMs \div 1000
        windowStart == getWindowStart(now)
    IN  [st |-> storage,
         res |-> IF ~Has(storage, key) \/ storage[key].windowStart # windowStart
                 THEN limit
                 ELSE Max(0, limit - storage[key].count)]

(* utils/key.ts.  A string is the sequence of its characters, a template   *)
(* literal the concatenation of its parts.  The prefixes hold no ':' and   *)
(* stand as one character each.                                            *)

\* MemoryFixedWindow.cleanupAllExpired: deletes every key whose stored window
\* is not the current one
MemoryFixedWindow_cleanupAllExpired(storage, nowMs) ==
    LET now == nowMs \div 1000
        currentWindowStart == getWindowStart(now)
    IN  [key \in {k \in DOMAIN storage :
                     ~(storage[k].windowStart < currentWindowStart)}
            |-> storage[key]]

getKey(ratelimiterType, ratelimiterName, id, extra) ==
    ratelimiterType \o <<":">> \o ratelimiterName \o <<":">> \o id
        \o (IF extra # << >> THEN <<":">> \o extra ELSE << >>)

\* IORedisFixedWindowRateLimiter.getKey of the instance called name
FixedWindow_storeKey(name, key, nowMs) ==
    getKey(<<"pvrl-fixed-window">>, name, key, << >>)
        \o <<":">> \o <<ToString((nowMs \div 1000) \div interval)>>

\* IORedisThrottlingRateLimiter.getKey of the instance called name
Throttling_storeKey(name, key) == getKey(<<"pvrl-throttling">>, name, key, << >>)

\* IORedisFixedWindowRateLimiter.getKey: the window index is part of the key
FixedWindow_getKey(key, nowMs) ==
    <<"pvrl-fixed-window", key, (nowMs \div 1000) \div interval>>

\* a faulty getFixedWindow: a counter grown past limit gives a negative
\* remaining
getFixedWindow_unclamped(db, KEYS, nowMs) ==
    [st |-> db, res |-> limit - GETnum(db, KEYS[1])]

consumeFixedWindow(db, KEYS, nowMs) ==
    LET db1 == INCR(db, KEYS[1])
        count == db1[KEYS[1]].val
        db2 == IF count = 1 THEN EXPIRE(db1, KEYS[1], interval, nowMs) ELSE db1
        remaining == IF limit - count < 0 THEN 0 ELSE limit - count
    IN  [st |-> db2,
         res |-> [success |-> ~(count > limit), remaining |-> remaining]]

getFixedWindow(db, KEYS, nowMs) ==
    LET count == GETnum(db, KEYS[1])
    IN  [st |-> db, res |-> IF limit - count < 0 THEN 0 ELSE limit - count]

----------------------------------------------------------------------------
(* SlidingWindow *)

\* a faulty calculateWeightedRate: the previous window counts in full
calculateWeightedRate_unweighted(windowData, now) ==
    windowData.current + windowData.previous

\* MemorySlidingWindow.calculateWeightedRate; Math.floor(previous * weight)
\* with weight = Math.max(0, overlap / interval)
calculateWeightedRate(windowData, now) ==
    LET currentWindowEnd == windowData.currentWindowStart + interval
        overlap == currentWindowEnd - now
    IN  windowData.current
          + (IF overlap <= 0 THEN 0 ELSE (windowData.previous * overlap) \div interval)

\* a faulty rollover: rolls the window over on every call
rollover_always(windowData, currentWindowStart) ==
    [current |-> 0, previous |-> windowData.current,
     currentWindowStart |-> currentWindowStart]

\* the rollover made by consume and by getRemaining on the stored object
rollover(windowData, currentWindowStart) ==
    IF windowData.currentWindowStart # currentWindowStart
    THEN [current |-> 0, previous |-> windowData.current,
          currentWindowStart |-> currentWindowStart]
    ELSE windowData

MemorySlidingWindow_consume(windows, key, nowMs) ==
    LET now == nowMs \div 1000
        currentWindowStart == (now \div interval) * interval
        stored == IF Has(windows, key) THEN windows[key]
                  ELSE [current |-> 0, previous |-> 0,
                        currentWindowStart |-> currentWindowStart]
        windowData == rollover(stored, currentWindowStart)
        weightedRate == calculateWeightedRate(windowData, now)
    IN  IF weightedRate >= limit
        THEN [st |-> Put(windows, key, windowData),
              res |-> [success |-> FALSE, remaining |-> Max(0, limit - weightedRate)]]
        ELSE [st |-> Put(windows, key, [windowData EXCEPT !.current = @ + 1]),
              res |-> [success |-> TRUE,
                       remaining |-> Max(0, limit - (weightedRate + 1))]]

MemorySlidingWindow_getRemaining(windows, key, nowMs) ==
    LET now == nowMs \div 1000
        currentWindowStart == (now \div interval) * interval
    IN  IF ~Has(windows, key) THEN [st |-> windows, res |-> limit]
        ELSE LET windowData == rollover(windows[key], currentWindowStart)
             IN  [st |-> Put(windows, key, windowData),
                  res |-> Max(0, limit - calculateWeightedRate(windowData, now))]

\* MemorySlidingWindow.cleanup: deletes every key whose current window ended
\* more than two intervals ago
MemorySlidingWindow_cleanup(windows, nowMs) ==
    LET now == nowMs \div 1000
        cutoffTime == now - interval * 2
        windowEnd(k) == windows[k].currentWindowStart + interval
    IN  [key \in {k \in DOMAIN windows : ~(windowEnd(k) < cutoffTime)}
            |-> windows[key]]

\* IORedisSlidingWindowRateLimiter.getKeys
SlidingWindow_getKeys(key, nowMs) ==
    LET currentWindow == (nowMs \div 1000) \div interval
    IN  <<(<<"sliding_window", key, currentWindow>>),
          (<<"sliding_window", key, currentWindow - 1>>)>>

\* the part of the script shared by consumeSlidingWindow and getSlidingWindow
slidingWindowTotal(db, KEYS, current_time) ==
    LET previous_count == GETnum(db, KEYS[2])
        time_in_window == current_time % interval
        weighted_count == (previous_count * (interval - time_in_window)) \div interval
    IN  weighted_count + GETnum(db, KEYS[1])

SlidingWindowTTL == 2

consumeSlidingWindow(db, KEYS, current_time, nowMs) ==
    LET total_count == slidingWindowTotal(db, KEYS, current_time)
        remaining == limit - total_count
    IN  IF total_count >= limit
        THEN [st |-> db,
              res |-> [success |-> FALSE,
                       remaining |-> IF remaining < 0 THEN 0 ELSE remaining]]
        ELSE LET db1 == INCR(db, KEYS[1])
                 db2 == IF db1[KEYS[1]].val = 1
                        THEN EXPIRE(db1, KEYS[1], interval * SlidingWindowTTL, nowMs)
                        ELSE db1
             IN  [st |-> db2,
                  res |-> [success |-> TRUE,
                           remaining |-> IF remaining - 1 < 0 THEN 0 ELSE remaining - 1]]

getSlidingWindow(db, KEYS, current_time) ==
    LET remaining == limit - slidingWindowTotal(db, KEYS, current_time)
    IN  [st |-> db, res |-> IF remaining < 0 THEN 0 ELSE remaining]

----------------------------------------------------------------------------
(* SlidingLog *)

\* Array.prototype.filter(timestamp => timestamp > cutoffTime)
RECURSIVE filterAfter(_, _)
filterAfter(timestamps, cutoffTime) ==
    IF timestamps = << >> THEN << >>
    ELSE IF Head(timestamps) > cutoffTime
         THEN <<Head(timestamps)>> \o filterAfter(Tail(timestamps), cutoffTime)
         ELSE filterAfter(Tail(timestamps), cutoffTime)

\* uniqueRequestId is accepted and not used
MemorySlidingLog_consume(storage, key, nowMs, uniqueRequestId) ==
    LET now == nowMs \div 1000
        cutoffTime == now - interval
        timestamps == IF Has(storage, key) THEN storage[key] ELSE << >>
        validTimestamps == filterAfter(timestamps, cutoffTime)
    IN  IF Len(validTimestamps) >= limit
        THEN [st |-> Put(storage, key, validTimestamps),
              res |-> [success |-> FALSE, remaining |-> 0]]
        ELSE [st |-> Put(storage, key, Append(validTimestamps, now)),
              res |-> [success |-> TRUE,
                       remaining |-> limit - (Len(validTimestamps) + 1)]]

MemorySlidingLog_getRemaining(storage, key, nowMs) ==
    LET now == nowMs \div 1000
        cutoffTime == now - interval
    IN  [st |-> storage,
         res |-> IF ~Has(storage, key) THEN limit
                 ELSE Max(0, limit - Len(filterAfter(storage[key], cutoffTime)))]

\* MemorySlidingLog.cleanup: filters every log and deletes the empty ones
MemorySlidingLog_cleanup(storage, nowMs) ==
    LET now == nowMs \div 1000
        cutoffTime == now - interval
        validTimestamps(k) == filterAfter(storage[k], cutoffTime)
    IN  [key \in {k \in DOMAIN storage : Len(validTimestamps(k)) # 0}
            |-> validTimestamps(key)]

SlidingLog_getKey(key) == <<"sliding_log", key>>

\* ZREMRANGEBYSCORE key -inf max: the sorted set is a map member -> score;
\* Redis deletes a sorted set that becomes empty
ZREMRANGEBYSCORE(db, k, max) ==
    IF ~Has(db, k) THEN db
    ELSE LET zset == db[k].val
             kept == [m \in {x \in DOMAIN zset : zset[x] > max} |-> zset[m]]
         IN  IF DOMAIN kept = {} THEN Del(db, k)
             ELSE Put(db, k, [db[k] EXCEPT !.val = kept])

ZCARD(db, k) == IF Has(db, k) THEN Cardinality(DOMAIN db[k].val) ELSE 0

\* ZADD key score member: a member already present only has its score changed
ZADD(db, k, score, member) ==
    IF Has(db, k) THEN Put(db, k, [db[k] EXCEPT !.val = Put(@, member, score)])
    ELSE Put(db, k, [val |-> Put(EmptyMap, member, score), exp |-> NoExpiry])

consumeSlidingLog(db, KEYS, current_time, request_id, nowMs) ==
    LET min_score == current_time - interval
        db1 == ZREMRANGEBYSCORE(db, KEYS[1], min_score)
        count == ZCARD(db1, KEYS[1])
    IN  IF count < limit
        THEN [st |-> EXPIRE(ZADD(db1, KEYS[1], current_time, request_id),
                            KEYS[1], interval, nowMs),
              res |-> [success |-> TRUE, remaining |-> limit - (count + 1)]]
        ELSE [st |-> db1, res |-> [success |-> FALSE, remaining |-> 0]]

getSlidingLog(db, KEYS, current_time) ==
    LET min_score == current_time - interval
        db1 == ZREMRANGEBYSCORE(db, KEYS[1], min_score)
        remaining == limit - ZCARD(db1, KEYS[1])
    IN  [st |-> db1, res |-> IF remaining < 0 THEN 0 ELSE remaining]

----------------------------------------------------------------------------
(* TokenBucket.  Timestamps are whole seconds here, so the client's        *)
(* Math.ceil(nextRefill) leaves them as they are; token amounts are not    *)
(* whole, and Math.floor(remaining) rounds them.                           *)

\* Token amounts are numbers, not only whole ones: they are held in units
\* of 1 / Unit of a token.
Unit == 2

\* n whole tokens
Tokens(n) == n * Unit

\* Math.floor of a token amount
MathFloor(x) == (x \div Unit) * Unit

Threw == [threw |-> TRUE]

getOrCreateBucket(buckets, key, now) ==
    IF Has(buckets, key) THEN buckets
    ELSE Put(buckets, key, [tokens |-> Tokens(capacity), lastRefill |-> now])

refillBucket(bucket, now) ==
    LET timeElapsed == now - bucket.lastRefill
        refillCycles == timeElapsed \div refillInterval
    IN  IF refillCycles > 0
        THEN [tokens |-> Min(Tokens(capacity), bucket.tokens + refillCycles * Tokens(refillAmount)),
              lastRefill |-> now]
        ELSE bucket

MemoryTokenBucket_consume(buckets, key, nowMs, tokens) ==
    IF tokens < 0 THEN [st |-> buckets, res |-> Threw]
    ELSE
    LET now == nowMs \div 1000
        bucket == refillBucket(getOrCreateBucket(buckets, key, now)[key], now)
    IN  IF bucket.tokens < tokens
        THEN [st |-> Put(buckets, key, bucket),
              res |-> [threw |-> FALSE, success |-> FALSE,
                       remainingTokens |-> bucket.tokens,
                       nextRefillAt |-> bucket.lastRefill + refillInterval]]
        ELSE [st |-> Put(buckets, key, [tokens |-> bucket.tokens - tokens,
                                        lastRefill |-> now]),
              res |-> [threw |-> FALSE, success |-> TRUE,
                       remainingTokens |-> bucket.tokens - tokens,
                       nextRefillAt |-> now + refillInterval]]

MemoryTokenBucket_getRemainingTokens(buckets, key, nowMs) ==
    LET now == nowMs \div 1000
        bucket == refillBucket(getOrCreateBucket(buckets, key, now)[key], now)
    IN  [st |-> Put(buckets, key, bucket),
         res |-> [threw |-> FALSE, remainingTokens |-> bucket.tokens,
                  nextRefillAt |-> bucket.lastRefill + refillInterval]]

MemoryTokenBucket_addTokens(buckets, key, nowMs, amount) ==
    IF amount <= 0 THEN [st |-> buckets, res |-> Threw]
    ELSE
    LET now == nowMs \div 1000
        bucket == refillBucket(getOrCreateBucket(buckets, key, now)[key], now)
    IN  [st |-> Put(buckets, key,
                    [bucket EXCEPT !.tokens = Min(Tokens(capacity), bucket.tokens + amount)]),
         res |-> [threw |-> FALSE]]

MemoryTokenBucket_removeTokens(buckets, key, nowMs, amount) ==
    IF amount <= 0 THEN [st |-> buckets, res |-> Threw]
    ELSE
    LET now == nowMs \div 1000
        bucket == refillBucket(getOrCreateBucket(buckets, key, now)[key], now)
    IN  [st |-> Put(buckets, key,
                    [bucket EXCEPT !.tokens = Max(0, bucket.tokens - amount)]),
         res |-> [threw |-> FALSE]]

\* MemoryTokenBucket.cleanup: deletes every bucket last refilled more than
\* ten refill intervals ago
MemoryTokenBucket_cleanup(buckets, nowMs) ==
    LET now == nowMs \div 1000
        maxAge == refillInterval * 10
    IN  [key \in {k \in DOMAIN buckets : ~(now - buckets[k].lastRefill > maxAge)}
            |-> buckets[key]]

TokenBucket_getKey(key) == <<"token_bucket", key>>

\* HSET key 'tokens' t 'last_updated' u: creates the hash, keeps a TTL
HSET2(db, k, t, u) ==
    Put(db, k, [val |-> [tokens |-> t, last_updated |-> u],
                exp |-> IF Has(db, k) THEN db[k].exp ELSE NoExpiry])

\* the refill step without the advance of last_updated: the same elapsed
\* intervals are credited again by the next call
tokenBucketRefill_anchorKept(db, k, current_time) ==
    LET last_tokens == IF Has(db, k) THEN db[k].val.tokens ELSE Tokens(capacity)
        last_updated == IF Has(db, k) THEN db[k].val.last_updated ELSE current_time
        elapsed_time == current_time - last_updated
        refills_to_add == elapsed_time \div refillInterval
    IN  IF elapsed_time >= refillInterval
        THEN [refilled |-> TRUE,
              current_tokens |-> Min(Tokens(capacity),
                                     last_tokens + refills_to_add * Tokens(refillAmount)),
              new_last_updated |-> last_updated]
        ELSE [refilled |-> FALSE, current_tokens |-> last_tokens,
              new_last_updated |-> last_updated]

\* the refill step shared by the consumeToken and getRemainingTokens scripts
tokenBucketRefill(db, k, current_time) ==
    LET last_tokens == IF Has(db, k) THEN db[k].val.tokens ELSE Tokens(capacity)
        last_updated == IF Has(db, k) THEN db[k].val.last_updated ELSE current_time
        elapsed_time == current_time - last_updated
        refills_to_add == elapsed_time \div refillInterval
    IN  IF elapsed_time >= refillInterval
        THEN [refilled |-> TRUE,
              current_tokens |-> Min(Tokens(capacity), last_tokens + refills_to_add * Tokens(refillAmount)),
              new_last_updated |-> last_updated + refills_to_add * refillInterval]
        ELSE [refilled |-> FALSE, current_tokens |-> last_tokens,
              new_last_updated |-> last_updated]

\* a faulty consumeToken: admits only when more tokens than requested are left
consumeToken_strict(db, KEYS, current_time, requested_tokens) ==
    LET b == tokenBucketRefill(db, KEYS[1], current_time)
        next_refill_at == b.new_last_updated + refillInterval
    IN  IF b.current_tokens > requested_tokens
        THEN [st |-> HSET2(db, KEYS[1], b.current_tokens - requested_tokens,
                           b.new_last_updated),
              res |-> [threw |-> FALSE, success |-> TRUE,
                       remainingTokens |-> b.current_tokens - requested_tokens,
                       nextRefillAt |-> next_refill_at]]
        ELSE [st |-> db,
              res |-> [threw |-> FALSE, success |-> FALSE,
                       remainingTokens |-> b.current_tokens,
                       nextRefillAt |-> next_refill_at]]

\* a faulty consumeToken: a refused request takes the tokens that are left
consumeToken_takingWhatIsLeft(db, KEYS, current_time, requested_tokens) ==
    LET b == tokenBucketRefill(db, KEYS[1], current_time)
        next_refill_at == b.new_last_updated + refillInterval
    IN  IF b.current_tokens >= requested_tokens
        THEN [st |-> HSET2(db, KEYS[1], b.current_tokens - requested_tokens,
                           b.new_last_updated),
              res |-> [threw |-> FALSE, success |-> TRUE,
                       remainingTokens |-> b.current_tokens - requested_tokens,
                       nextRefillAt |-> next_refill_at]]
        ELSE [st |-> HSET2(db, KEYS[1], 0, b.new_last_updated),
              res |-> [threw |-> FALSE, success |-> FALSE,
                       remainingTokens |-> b.current_tokens,
                       nextRefillAt |-> next_refill_at]]

consumeToken(db, KEYS, current_time, requested_tokens) ==
    LET b == tokenBucketRefill(db, KEYS[1], current_time)
        next_refill_at == b.new_last_updated + refillInterval
    IN  IF b.current_tokens >= requested_tokens
        THEN [st |-> HSET2(db, KEYS[1], b.current_tokens - requested_tokens,
                           b.new_last_updated),
              res |-> [threw |-> FALSE, success |-> TRUE,
                       remainingTokens |-> b.current_tokens - requested_tokens,
                       nextRefillAt |-> next_refill_at]]
        ELSE [st |-> db,
              res |-> [threw |-> FALSE, success |-> FALSE,
                       remainingTokens |-> b.current_tokens,
                       nextRefillAt |-> next_refill_at]]

getRemainingTokens(db, KEYS, current_time) ==
    LET b == tokenBucketRefill(db, KEYS[1], current_time)
    IN  [st |-> IF b.refilled
                THEN HSET2(db, KEYS[1], b.current_tokens, b.new_last_updated)
                ELSE db,
         res |-> [threw |-> FALSE, remainingTokens |-> b.current_tokens,
                  nextRefillAt |-> b.new_last_updated + refillInterval]]

\* addTokens' script: no refill step; a missing hash is created full
addScript(db, KEYS, amount, current_time) ==
    LET db1 == IF Has(db, KEYS[1]) THEN db
               ELSE HSET2(db, KEYS[1], Tokens(capacity), current_time)
        new_tokens == Min(Tokens(capacity), db1[KEYS[1]].val.tokens + amount)
    IN  [st |-> HSET2(db1, KEYS[1], new_tokens, db1[KEYS[1]].val.last_updated),
         res |-> [threw |-> FALSE]]

removeScript(db, KEYS, amount, current_time) ==
    LET db1 == IF Has(db, KEYS[1]) THEN db
               ELSE HSET2(db, KEYS[1], Tokens(capacity), current_time)
        new_tokens == Max(0, db1[KEYS[1]].val.tokens - amount)
    IN  [st |-> HSET2(db1, KEYS[1], new_tokens, db1[KEYS[1]].val.last_updated),
         res |-> [threw |-> FALSE]]

\* IORedisTokenBucketRateLimiter.consume: the script's reply, remainingTokens
\* rounded down to a whole number
IORedisTokenBucket_consume(db, KEYS, current_time, tokens) ==
    LET r == consumeToken(db, KEYS, current_time, tokens)
    IN  [st |-> r.st,
         res |-> [r.res EXCEPT !.remainingTokens = MathFloor(@)]]

IORedisTokenBucket_getRemainingTokens(db, KEYS, current_time) ==
    LET r == getRemainingTokens(db, KEYS, current_time)
    IN  [st |-> r.st,
         res |-> [r.res EXCEPT !.remainingTokens = MathFloor(@)]]

----------------------------------------------------------------------------
(* LeakyBucket *)

\* MemoryLeakyBucket.cleanupExpired: items.filter(item => item.expiresAt > now)
cleanupExpired(items, now) == filterAfter(items, now)

MemoryLeakyBucket_consume(queues, key, nowMs) ==
    LET now == nowMs \div 1000
        items == cleanupExpired(IF Has(queues, key) THEN queues[key] ELSE << >>, now)
    IN  IF Len(items) >= capacity
        THEN [st |-> Put(queues, key, items),
              res |-> [success |-> FALSE, remaining |-> 0]]
        ELSE [st |-> Put(queues, key, Append(items, now + interval)),
              res |-> [success |-> TRUE, remaining |-> capacity - (Len(items) + 1)]]

MemoryLeakyBucket_getState(queues, key, nowMs) ==
    LET now == nowMs \div 1000
        items == cleanupExpired(IF Has(queues, key) THEN queues[key] ELSE << >>, now)
    IN  [st |-> Put(queues, key, items),
         res |-> [size |-> Len(items), remaining |-> Max(0, capacity - Len(items))]]

\* MemoryLeakyBucket.cleanupAllExpired: cleans every queue and deletes the
\* empty ones
MemoryLeakyBucket_cleanupAllExpired(queues, nowMs) ==
    LET now == nowMs \div 1000
        items(k) == cleanupExpired(queues[k], now)
    IN  [key \in {k \in DOMAIN queues : Len(items(k)) # 0} |-> items(key)]

LeakyBucket_getKey(key) == <<"leaky_bucket", key>>

LLEN(db, k) == IF Has(db, k) THEN Len(db[k].val) ELSE 0

RPUSH(db, k, v) ==
    IF Has(db, k) THEN Put(db, k, [db[k] EXCEPT !.val = Append(@, v)])
    ELSE Put(db, k, [val |-> <<v>>, exp |-> NoExpiry])

\* The script with the capacity test off by one: it still admits into a
\* queue that already holds capacity entries.
consumeLeakyBucket_overfull(db, KEYS, request_id, nowMs) ==
    LET len == LLEN(db, KEYS[1])
    IN  IF len <= capacity
        THEN [st |-> EXPIRE(RPUSH(db, KEYS[1], request_id), KEYS[1], interval, nowMs),
              res |-> [success |-> TRUE, remaining |-> capacity - (len + 1)]]
        ELSE [st |-> db, res |-> [success |-> FALSE, remaining |-> 0]]

consumeLeakyBucket(db, KEYS, request_id, nowMs) ==
    LET len == LLEN(db, KEYS[1])
    IN  IF len < capacity
        THEN [st |-> EXPIRE(RPUSH(db, KEYS[1], request_id), KEYS[1], interval, nowMs),
              res |-> [success |-> TRUE, remaining |-> capacity - (len + 1)]]
        ELSE [st |-> db, res |-> [success |-> FALSE, remaining |-> 0]]

getStateLeakyBucket(db, KEYS) ==
    LET len == LLEN(db, KEYS[1])
    IN  [st |-> db,
         res |-> [size |-> len,
                  remaining |-> IF capacity - len < 0 THEN 0 ELSE capacity - len]]

----------------------------------------------------------------------------
(* Throttling: times in milliseconds *)

\* A lookup whose default for a key it does not hold is the time the
\* limiter was built instead of 0.
lastRequestTimeOf_sinceStart(lastRequestTimes, key) ==
    IF Has(lastRequestTimes, key) THEN lastRequestTimes[key] ELSE EpochMs

\* this.lastRequestTimes.get(key) || 0
lastRequestTimeOf(lastRequestTimes, key) ==
    IF Has(lastRequestTimes, key) THEN lastRequestTimes[key] ELSE 0

MemoryThrottling_throttle(lastRequestTimes, key, now) ==
    LET lastRequestTime == lastRequestTimeOf(lastRequestTimes, key)
        timeSinceLastRequest == now - lastRequestTime
        waitTime == Max(0, minInterval - timeSinceLastRequest)
    IN  IF waitTime = 0
        THEN [st |-> Put(lastRequestTimes, key, now),
              res |-> [success |-> TRUE, waitTime |-> 0, nextAllowedAt |-> now]]
        ELSE [st |-> lastRequestTimes,
              res |-> [success |-> FALSE, waitTime |-> waitTime,
                       nextAllowedAt |-> lastRequestTime + minInterval]]

\* getStatus reporting the time of the last successful call as nextAllowedAt
MemoryThrottling_getStatus_lastTime(lastRequestTimes, key, now) ==
    LET lastRequestTime == lastRequestTimeOf(lastRequestTimes, key)
        timeSinceLastRequest == now - lastRequestTime
        waitTime == Max(0, minInterval - timeSinceLastRequest)
    IN  [st |-> lastRequestTimes,
         res |-> IF waitTime = 0
                 THEN [success |-> TRUE, waitTime |-> 0, nextAllowedAt |-> now]
                 ELSE [success |-> FALSE, waitTime |-> waitTime,
                       nextAllowedAt |-> lastRequestTime]]

MemoryThrottling_getStatus(lastRequestTimes, key, now) ==
    LET lastRequestTime == lastRequestTimeOf(lastRequestTimes, key)
        timeSinceLastRequest == now - lastRequestTime
        waitTime == Max(0, minInterval - timeSinceLastRequest)
    IN  [st |-> lastRequestTimes,
         res |-> IF waitTime = 0
                 THEN [success |-> TRUE, waitTime |-> 0, nextAllowedAt |-> now]
                 ELSE [success |-> FALSE, waitTime |-> waitTime,
                       nextAllowedAt |-> lastRequestTime + minInterval]]

Throttling_getKey(key) == <<"pvrl-throttling", key>>

\* the extra seconds of the TTL: math.ceil(min_interval / 1000) + 60
ThrottleTTLSlack == 60

\* SET key value: replaces the value and clears any TTL
SET(db, k, v) == Put(db, k, [val |-> v, exp |-> NoExpiry])

\* The script with the refusal computed from the call's own time instead of
\* the recorded one: nextAllowedAt = current_time + min_interval.
throttleRequest_fromNow(db, KEYS, current_time, nowMs) ==
    LET last_request_time == GETnum(db, KEYS[1])
        time_since_last == current_time - last_request_time
    IN  IF time_since_last < minInterval
        THEN [st |-> db,
              res |-> [success |-> FALSE, waitTime |-> minInterval - time_since_last,
                       nextAllowedAt |-> current_time + minInterval]]
        ELSE [st |-> EXPIRE(SET(db, KEYS[1], current_time), KEYS[1],
                            Ceil(minInterval, 1000) + ThrottleTTLSlack, nowMs),
              res |-> [success |-> TRUE, waitTime |-> 0,
                       nextAllowedAt |-> current_time]]

throttleRequest(db, KEYS, current_time, nowMs) ==
    LET last_request_time == GETnum(db, KEYS[1])
        time_since_last == current_time - last_request_time
    IN  IF time_since_last < minInterval
        THEN [st |-> db,
              res |-> [success |-> FALSE, waitTime |-> minInterval - time_since_last,
                       nextAllowedAt |-> last_request_time + minInterval]]
        ELSE [st |-> EXPIRE(SET(db, KEYS[1], current_time), KEYS[1],
                            Ceil(minInterval, 1000) + ThrottleTTLSlack, nowMs),
              res |-> [success |-> TRUE, waitTime |-> 0,
                       nextAllowedAt |-> current_time]]

\* a faulty getThrottleStatus: records the request when it reports success
getThrottleStatus_writing(db, KEYS, current_time) ==
    LET r == throttleRequest(db, KEYS, current_time, current_time)
    IN  [st |-> IF r.res.success THEN SET(db, KEYS[1], current_time) ELSE db,
         res |-> r.res]

getThrottleStatus(db, KEYS, current_time) ==
    LET last_request_time == GETnum(db, KEYS[1])
        time_since_last == current_time - last_request_time
    IN  [st |-> db,
         res |-> IF time_since_last < minInterval
                 THEN [success |-> FALSE, waitTime |-> minInterval - time_since_last,
                       nextAllowedAt |-> last_request_time + minInterval]
                 ELSE [success |-> TRUE, waitTime |-> 0,
                       nextAllowedAt |-> current_time]]

----------------------------------------------------------------------------
(* Dispatch: the method of the Memory class, the script of the IORedis     *)
(* class.  Each returns [st |-> the store after the call, res |-> result]. *)

NoArg == "-"

MemoryExecFor(key, op, storage, nowMs, arg) ==
    CASE algorithm = "FixedWindow" /\ op = "consume" ->
            MemoryFixedWindow_consume(storage, key, nowMs)
      [] algorithm = "FixedWindow" /\ op = "getRemaining" ->
            MemoryFixedWindow_getRemaining(storage, key, nowMs)
      [] algorithm = "SlidingWindow" /\ op = "consume" ->
            MemorySlidingWindow_consume(storage, key, nowMs)
      [] algorithm = "SlidingWindow" /\ op = "getRemaining" ->
            MemorySlidingWindow_getRemaining(storage, key, nowMs)
      [] algorithm = "SlidingLog" /\ op = "consume" ->
            MemorySlidingLog_consume(storage, key, nowMs, arg)
      [] algorithm = "SlidingLog" /\ op = "getRemaining" ->
            MemorySlidingLog_getRemaining(storage, key, nowMs)
      [] algorithm = "TokenBucket" /\ op = "consume" ->
            MemoryTokenBucket_consume(storage, key, nowMs, arg)
      [] algorithm = "TokenBucket" /\ op = "getRemainingTokens" ->
            MemoryTokenBucket_getRemainingTokens(storage, key, nowMs)
      [] algorithm = "TokenBucket" /\ op = "addTokens" ->
            MemoryTokenBucket_addTokens(storage, key, nowMs, arg)
      [] algorithm = "TokenBucket" /\ op = "removeTokens" ->
            MemoryTokenBucket_removeTokens(storage, key, nowMs, arg)
      [] algorithm = "LeakyBucket" /\ op = "consume" ->
            MemoryLeakyBucket_consume(storage, key, nowMs)
      [] algorithm = "LeakyBucket" /\ op = "getState" ->
            MemoryLeakyBucket_getState(storage, key, nowMs)
      [] algorithm = "Throttling" /\ op = "throttle" ->
            MemoryThrottling_throttle(storage, key, nowMs)
      [] algorithm = "Throttling" /\ op = "getStatus" ->
            MemoryThrottling_getStatus(storage, key, nowMs)

\* a call on the caller key the behaviour follows
MemoryExec(op, storage, nowMs, arg) == MemoryExecFor(Key, op, storage, nowMs, arg)

\* req: a call in flight; nowMs: the server clock when the script runs.
\* The scripts that take a time take the client's, read before the await:
\* Date.now() / 1000 in seconds (Date.now() for Throttling).
RedisExec(req, db, nowMs) ==
    CASE req.cmd = "consumeFixedWindow" -> consumeFixedWindow(db, req.KEYS, nowMs)
      [] req.cmd = "getFixedWindow" -> getFixedWindow(db, req.KEYS, nowMs)
      [] req.cmd = "consumeSlidingWindow" ->
            consumeSlidingWindow(db, req.KEYS, req.t \div 1000, nowMs)
      [] req.cmd = "getSlidingWindow" -> getSlidingWindow(db, req.KEYS, req.t \div 1000)
      [] req.cmd = "consumeSlidingLog" ->
            consumeSlidingLog(db, req.KEYS, req.t \div 1000, req.id, nowMs)
      [] req.cmd = "getSlidingLog" -> getSlidingLog(db, req.KEYS, req.t \div 1000)
      [] req.cmd = "consumeToken" ->
            IORedisTokenBucket_consume(db, req.KEYS, req.t \div 1000, req.arg)
      [] req.cmd = "getRemainingTokens" ->
            IORedisTokenBucket_getRemainingTokens(db, req.KEYS, req.t \div 1000)
      [] req.cmd = "addScript" -> addScript(db, req.KEYS, req.arg, req.t \div 1000)
      [] req.cmd = "removeScript" -> removeScript(db, req.KEYS, req.arg, req.t \div 1000)
      [] req.cmd = "consumeLeakyBucket" ->
            consumeLeakyBucket(db, req.KEYS, req.id, nowMs)
      [] req.cmd = "getStateLeakyBucket" -> getStateLeakyBucket(db, req.KEYS)
      [] req.cmd = "throttleRequest" -> throttleRequest(db, req.KEYS, req.t, nowMs)
      [] req.cmd = "getThrottleStatus" -> getThrottleStatus(db, req.KEYS, req.t)

\* the mutating operation of each limiter, and its read-only accessor
MutatingOp == IF algorithm = "Throttling" THEN "throttle" ELSE "consume"

ReadOp ==
    CASE algorithm \in {"FixedWindow", "SlidingWindow", "SlidingLog"} -> "getRemaining"
      [] algorithm = "TokenBucket" -> "getRemainingTokens"
      [] algorithm = "LeakyBucket" -> "getState"
      [] algorithm = "Throttling" -> "getStatus"

ReadOps == {"getRemaining", "getRemainingTokens", "getState", "getStatus"}

\* the script each IORedis method calls, and the KEYS it builds
RedisCmd(op) ==
    CASE algorithm = "FixedWindow" ->
            (IF op = "consume" THEN "consumeFixedWindow" ELSE "getFixedWindow")
      [] algorithm = "SlidingWindow" ->
            (IF op = "consume" THEN "consumeSlidingWindow" ELSE "getSlidingWindow")
      [] algorithm = "SlidingLog" ->
            (IF op = "consume" THEN "consumeSlidingLog" ELSE "getSlidingLog")
      [] algorithm = "TokenBucket" ->
            (CASE op = "consume" -> "consumeToken"
               [] op = "getRemainingTokens" -> "getRemainingTokens"
               [] op = "addTokens" -> "addScript"
               [] op = "removeTokens" -> "removeScript")
      [] algorithm = "LeakyBucket" ->
            (IF op = "consume" THEN "consumeLeakyBucket" ELSE "getStateLeakyBucket")
      [] algorithm = "Throttling" ->
            (IF op = "throttle" THEN "throttleRequest" ELSE "getThrottleStatus")

\* KEYS built without the caller key: every caller shares the state of one
RedisKeysFor_oneKey(key, nowMs) ==
    CASE algorithm = "FixedWindow" -> <<FixedWindow_getKey(Key, nowMs)>>
      [] algorithm = "SlidingWindow" -> SlidingWindow_getKeys(Key, nowMs)
      [] algorithm = "SlidingLog" -> <<SlidingLog_getKey(Key)>>
      [] algorithm = "TokenBucket" -> <<TokenBucket_getKey(Key)>>
      [] algorithm = "LeakyBucket" -> <<LeakyBucket_getKey(Key)>>
      [] algorithm = "Throttling" -> <<Throttling_getKey(Key)>>

RedisKeysFor(key, nowMs) ==
    CASE algorithm = "FixedWindow" -> <<FixedWindow_getKey(key, nowMs)>>
      [] algorithm = "SlidingWindow" -> SlidingWindow_getKeys(key, nowMs)
      [] algorithm = "SlidingLog" -> <<SlidingLog_getKey(key)>>
      [] algorithm = "TokenBucket" -> <<TokenBucket_getKey(key)>>
      [] algorithm = "LeakyBucket" -> <<LeakyBucket_getKey(key)>>
      [] algorithm = "Throttling" -> <<Throttling_getKey(key)>>

RedisKeys(nowMs) == RedisKeysFor(Key, nowMs)

(* Request ids.  The caller's uniqueRequestId "a" is id 0; the ids the     *)
(* client generates (randomUUID) are 1, 2, ...: each differs from every id *)
(* stored or in flight.                                                    *)

CallerId == 0

IdsOf(db, key) ==
    IF algorithm = "SlidingLog" /\ Has(db, SlidingLog_getKey(key))
    THEN DOMAIN db[SlidingLog_getKey(key)].val
    ELSE {}

IdsIn(db) == IdsOf(db, Key) \cup IdsOf(db, OtherKey)

randomUUID(pend) ==
    LET used == IdsIn(redis) \cup IdsIn(redisNoRead) \cup {r.id : r \in BagToSet(pend)}
    IN  CHOOSE n \in 1..(Cardinality(used) + 1) : n \notin used

\* uniqueRequestId || generated id
RequestId(arg, pend) ==
    IF algorithm \in {"SlidingLog", "LeakyBucket"}
    THEN (IF arg = "a" THEN CallerId ELSE randomUUID(pend))
    ELSE CallerId

RedisRequestFor(key, op, nowMs, arg, inBurst, pend) ==
    [cmd |-> RedisCmd(op), op |-> op, key |-> key, KEYS |-> RedisKeysFor(key, nowMs),
     t |-> nowMs, arg |-> arg, id |-> RequestId(arg, pend), inBurst |-> inBurst]

RedisRequest(op, nowMs, arg, inBurst, pend) ==
    RedisRequestFor(Key, op, nowMs, arg, inBurst, pend)

\* what a result says is left: remaining, remainingTokens, or for Throttling
\* whether a request is allowed
RemainingOf(op, res) ==
    CASE algorithm \in {"FixedWindow", "SlidingWindow", "SlidingLog"} ->
            (IF op = "consume" THEN res.remaining ELSE res)
      [] algorithm = "TokenBucket" -> res.remainingTokens
      [] algorithm = "LeakyBucket" -> res.remaining
      [] algorithm = "Throttling" -> (IF res.success THEN 1 ELSE 0)

\* whole admissions left: requests for the counting limiters, whole tokens
\* for TokenBucket (consume takes one token by default)
SlotsLeft(op, res) ==
    IF algorithm = "TokenBucket" THEN RemainingOf(op, res) \div Unit
    ELSE RemainingOf(op, res)

Succeeded(op, res) ==
    /\ op \in {"consume", "throttle"}
    /\ IF algorithm = "TokenBucket" THEN ~res.threw /\ res.success ELSE res.success

----------------------------------------------------------------------------
(* State machine *)

Algorithms ==
    {"FixedWindow", "SlidingWindow", "SlidingLog", "TokenBucket", "LeakyBucket",
     "Throttling"}

Stamps == {DateNowAt(c) : c \in 0..MaxTime}

AdmitCap == Max(limit, capacity) + 1

IdleBurst == [on |-> FALSE, t |-> 0, done |-> 0, ok |-> 0]

\* arguments tried: tokens of consume, amount of addTokens / removeTokens,
\* uniqueRequestId of SlidingLog.consume
TokenArgs == {Tokens(-1), 0, 1, Tokens(1), Tokens(capacity)}

AmountArgs == {Tokens(-1), 0, Tokens(1), Tokens(capacity + 1)}

IdArgs == {NoArg, "a"}

\* TokenBucket has four operations with arguments, and SlidingLog.consume
\* takes a request id that is free: one call fewer for both
CallBudget ==
    IF algorithm \in {"TokenBucket", "SlidingLog"} THEN MaxCalls - 1 ELSE MaxCalls

\* ticks in one behaviour: one fewer for TokenBucket
TimeBudget == IF algorithm = "TokenBucket" THEN MaxTime - 1 ELSE MaxTime

\* tracking: whether the behaviour also follows the run without removals
\* counting: whether the behaviour keeps the total of the tokens handed out
\* noting: whether the behaviour keeps the nextAllowedAt of refused calls
InitAll(algs, tracking, counting, noting) ==
    /\ algorithm \in algs
    /\ backend \in {"memory", "redis"}
    /\ clock = 0
    /\ mem = EmptyMap
    /\ redis = EmptyMap
    /\ pending = EmptyBag
    /\ noRemoval = [on |-> tracking, st |-> EmptyMap]
    /\ last = NoCall
    /\ admitted = [s \in Stamps |-> 0]
    /\ memNoRead = EmptyMap
    /\ redisNoRead = EmptyMap
    /\ burst = IdleBurst
    /\ calls = 0
    /\ granted = [on |-> counting, seen |-> FALSE, first |-> 0, total |-> 0]
    /\ announced = [on |-> noting, open |-> FALSE, at |-> 0, kept |-> TRUE,
                    met |-> FALSE]

InitWith(algs, tracking) == InitAll(algs, tracking, FALSE, FALSE)

InitFor(algs) == InitWith(algs, FALSE)

Init == InitFor(Algorithms)

\* TokenBucket grants tokens, not admissions: it keeps no admission count
\* the tokens handed out to Key: a successful consume(key, n) hands out n;
\* first is the earliest time at which a completed call read the clock
Grant(g, key, op, arg, t, res) ==
    IF g.on /\ key = Key
    THEN [on |-> TRUE, seen |-> TRUE,
          first |-> IF g.seen THEN Min(g.first, t) ELSE t,
          total |-> g.total + (IF op = "consume" /\ Succeeded(op, res)
                               THEN arg ELSE 0)]
    ELSE g

\* what refused throttle and getStatus calls on Key reported: at is the
\* earliest nextAllowedAt reported since the last successful throttle; kept
\* turns FALSE when a throttle made at or after that time is refused, met
\* turns TRUE when one succeeds
Announce(an, key, op, t, res) ==
    IF ~(an.on /\ key = Key /\ op \in {"throttle", "getStatus"}) THEN an
    ELSE IF op = "throttle" /\ res.success
    THEN [an EXCEPT !.open = FALSE, !.at = 0,
                    !.met = an.met \/ (an.open /\ t >= an.at)]
    ELSE IF res.success THEN an
    ELSE [an EXCEPT !.open = TRUE,
                    !.at = IF an.open THEN Min(an.at, res.nextAllowedAt)
                           ELSE res.nextAllowedAt,
                    !.kept = an.kept /\ ~(op = "throttle" /\ an.open /\ t >= an.at)]

Admit(adm, op, t, res) ==
    IF algorithm # "TokenBucket" /\ Succeeded(op, res)
    THEN [adm EXCEPT ![t] = Min(@ + 1, AdmitCap)]
    ELSE adm

\* time passes; Redis drops the keys whose TTL is over
Tick ==
    /\ clock < TimeBudget
    /\ clock' = clock + 1
    /\ redis' = DropExpired(redis, DateNowAt(clock + 1))
    /\ redisNoRead' = DropExpired(redisNoRead, DateNowAt(clock + 1))
    /\ UNCHANGED <<algorithm, backend, mem, pending, last, admitted, memNoRead,
                   burst, calls, noRemoval, granted,
                   announced>>

\* a read-only call that directly follows the same read-only call, made at
\* the same time on the state that call left: does it return the same value?
Reread(op, t, pre, res) ==
    IF /\ op \in ReadOps /\ last.op = op /\ ~last.failed /\ last.key = Key
       /\ last.t = t /\ last.post = pre
    THEN (IF last.res = res THEN "same" ELSE "differs")
    ELSE "no"

CallRecordFor(key, op, arg, t, pre, r, rNo) ==
    [key |-> key, op |-> op, arg |-> arg, t |-> t, pre |-> pre, post |-> r.st,
     res |-> r.res, resNoRead |-> rNo.res,
     reread |-> IF key = Key THEN Reread(op, t, pre, r.res) ELSE "no",
     failed |-> FALSE, resNoRemoval |-> r.res]

CallRecord(op, arg, t, pre, r, rNo) == CallRecordFor(Key, op, arg, t, pre, r, rNo)

\* one call on a Memory limiter: synchronous from the clock read to the write
MemoryCall(op, arg) ==
    LET r == MemoryExec(op, mem, DateNow, arg)
        rNo == MemoryExec(op, memNoRead, DateNow, arg)
    IN  /\ backend = "memory"
        /\ calls < CallBudget
        /\ calls' = calls + 1
        /\ mem' = r.st
        /\ memNoRead' = IF op \in ReadOps THEN memNoRead ELSE rNo.st
        /\ last' = [CallRecord(op, arg, DateNow, mem, r, rNo)
                        EXCEPT !.resNoRemoval =
                            IF noRemoval.on
                            THEN MemoryExec(op, noRemoval.st, DateNow, arg).res
                            ELSE r.res]
        /\ noRemoval' = IF noRemoval.on
                        THEN [noRemoval EXCEPT
                                 !.st = MemoryExec(op, @, DateNow, arg).st]
                        ELSE noRemoval
        /\ admitted' = Admit(admitted, op, DateNow, r.res)
        /\ granted' = Grant(granted, Key, op, arg, DateNow, r.res)
        /\ announced' = Announce(announced, Key, op, DateNow, r.res)
        /\ burst' = IdleBurst
        /\ UNCHANGED <<algorithm, backend, clock, redis, redisNoRead, pending>>

\* the client side of one call on an IORedis limiter, up to its await
RedisIssue(op, arg) ==
    /\ backend = "redis"
    /\ ~burst.on
    /\ BagCardinality(pending) < MaxInFlight
    /\ calls < CallBudget
    /\ calls' = calls + 1
    /\ pending' = pending (+) SetToBag({RedisRequest(op, DateNow, arg, FALSE, pending)})
    /\ burst' = IdleBurst
    /\ UNCHANGED <<algorithm, backend, clock, mem, redis, last, admitted,
                   memNoRead, redisNoRead, noRemoval, granted,
                   announced>>

\* a call the IORedis client answers without calling Redis
RedisLocal(op, arg, res) ==
    /\ backend = "redis"
    /\ ~burst.on
    /\ calls < CallBudget
    /\ calls' = calls + 1
    /\ last' = [key |-> Key, op |-> op, arg |-> arg, t |-> DateNow, pre |-> redis,
                post |-> redis, res |-> res, resNoRead |-> res, reread |-> "no",
                failed |-> FALSE, resNoRemoval |-> res]
    /\ burst' = IdleBurst
    /\ UNCHANGED <<algorithm, backend, clock, mem, redis, pending, admitted,
                   memNoRead, redisNoRead, noRemoval, granted,
                   announced>>

\* A commit with a lost update: the script of the call works on the state
\* the previously answered call had read, as if both calls had read before
\* either wrote.
RedisCommit_lostUpdate ==
    \E req \in BagToSet(pending) :
        LET seen == IF last.op = "none" THEN redis ELSE last.pre
            r == RedisExec(req, seen, DateNow)
            rNo == RedisExec(req, redisNoRead, DateNow)
        IN  /\ pending' = pending (-) SetToBag({req})
            /\ redis' = r.st
            /\ redisNoRead' = IF req.op \in ReadOps THEN redisNoRead ELSE rNo.st
            /\ last' = CallRecordFor(req.key, req.op, req.arg, req.t, seen, r, rNo)
            /\ noRemoval' = noRemoval
            /\ granted' = granted
            /\ announced' = announced
            /\ admitted' = IF req.key = Key THEN Admit(admitted, req.op, req.t, r.res)
                           ELSE admitted
            /\ burst' = IF req.inBurst
                        THEN [burst EXCEPT !.done = @ + 1,
                                           !.ok = @ + (IF Succeeded(req.op, r.res) THEN 1 ELSE 0),
                                           !.on = (burst.done + 1 < MaxInFlight)]
                        ELSE burst
            /\ UNCHANGED <<algorithm, backend, clock, mem, memNoRead, calls>>

\* the server runs the script of one call in flight, and the client's await ends
RedisCommit ==
    \E req \in BagToSet(pending) :
        LET r == RedisExec(req, redis, DateNow)
            rNo == RedisExec(req, redisNoRead, DateNow)
        IN  /\ pending' = pending (-) SetToBag({req})
            /\ redis' = r.st
            /\ redisNoRead' = IF req.op \in ReadOps THEN redisNoRead ELSE rNo.st
            /\ last' = [CallRecordFor(req.key, req.op, req.arg, req.t, redis, r, rNo)
                            EXCEPT !.resNoRemoval =
                                IF noRemoval.on
                                THEN RedisExec(req, noRemoval.st, DateNow).res
                                ELSE r.res]
            /\ noRemoval' = IF noRemoval.on
                            THEN [noRemoval EXCEPT
                                     !.st = RedisExec(req, @, DateNow).st]
                            ELSE noRemoval
            /\ admitted' = IF req.key = Key THEN Admit(admitted, req.op, req.t, r.res)
                           ELSE admitted
            /\ granted' = Grant(granted, req.key, req.op, req.arg, req.t, r.res)
            /\ announced' = Announce(announced, req.key, req.op, req.t, r.res)
            /\ burst' = IF req.inBurst
                        THEN [burst EXCEPT !.done = @ + 1,
                                           !.ok = @ + (IF Succeeded(req.op, r.res) THEN 1 ELSE 0),
                                           !.on = (burst.done + 1 < MaxInFlight)]
                        ELSE burst
            /\ UNCHANGED <<algorithm, backend, clock, mem, memNoRead, calls>>

\* what the caller of an IORedis method gets when the store call fails: the
\* promise rejects with the error of the client
Rejected == [rejected |-> TRUE]

\* A failure that makes the client send the request again: the request stays
\* in flight after its caller was answered.
RedisFail_retried ==
    \E req \in BagToSet(pending) :
        /\ last' = [key |-> req.key, op |-> req.op, arg |-> req.arg, t |-> req.t,
                    pre |-> redis,
                    post |-> redis, res |-> Rejected, resNoRead |-> Rejected,
                    reread |-> "no", failed |-> TRUE, resNoRemoval |-> Rejected]
        /\ UNCHANGED <<algorithm, backend, clock, mem, redis, pending, admitted,
                       memNoRead, redisNoRead, burst, calls, noRemoval, granted,
                   announced>>

\* the store call of one call in flight fails (the store is unreachable, or
\* the script is not run): the await throws, and no method catches it
RedisFail ==
    \E req \in BagToSet(pending) :
        /\ pending' = pending (-) SetToBag({req})
        /\ last' = [key |-> req.key, op |-> req.op, arg |-> req.arg, t |-> req.t,
                    pre |-> redis,
                    post |-> redis, res |-> Rejected, resNoRead |-> Rejected,
                    reread |-> "no", failed |-> TRUE, resNoRemoval |-> Rejected]
        /\ burst' = IF req.inBurst
                    THEN [burst EXCEPT !.done = @ + 1,
                                       !.on = (burst.done + 1 < MaxInFlight)]
                    ELSE burst
        /\ UNCHANGED <<algorithm, backend, clock, mem, redis, admitted,
                       memNoRead, redisNoRead, calls, noRemoval, granted,
                   announced>>

(* A burst: MaxInFlight consume / throttle calls made at the same instant   *)
(* (as by Promise.all) on a key for which the read-only accessor reports   *)
(* exactly one request left, with no other call in flight.                 *)

BurstArgs ==
    CASE algorithm = "SlidingLog" -> IdArgs
      [] algorithm = "TokenBucket" -> {Tokens(1)}
      [] algorithm = "LeakyBucket" -> {"a"}
      [] OTHER -> {NoArg}

RECURSIVE MemoryBurstRun(_, _, _)
MemoryBurstRun(acc, args, i) ==
    IF i > Len(args) THEN acc
    ELSE LET r == MemoryExec(MutatingOp, acc.st, DateNow, args[i])
             rNo == MemoryExec(MutatingOp, acc.stNo, DateNow, args[i])
         IN  MemoryBurstRun(
                 [st |-> r.st, stNo |-> rNo.st,
                  ok |-> acc.ok + (IF Succeeded(MutatingOp, r.res) THEN 1 ELSE 0),
                  adm |-> Admit(acc.adm, MutatingOp, DateNow, r.res),
                  last |-> CallRecord(MutatingOp, args[i], DateNow, acc.st, r, rNo)],
                 args, i + 1)

MemoryBurst ==
    /\ backend = "memory"
    /\ calls + MaxInFlight <= CallBudget
    /\ SlotsLeft(ReadOp, MemoryExec(ReadOp, mem, DateNow, NoArg).res) = 1
    /\ \E args \in [1..MaxInFlight -> BurstArgs] :
          LET run == MemoryBurstRun([st |-> mem, stNo |-> memNoRead, ok |-> 0,
                                     adm |-> admitted, last |-> last], args, 1)
          IN  /\ mem' = run.st
              /\ memNoRead' = run.stNo
              /\ admitted' = run.adm
              /\ last' = run.last
              /\ burst' = [on |-> FALSE, t |-> DateNow, done |-> MaxInFlight,
                           ok |-> run.ok]
    /\ calls' = calls + MaxInFlight
    /\ UNCHANGED <<algorithm, backend, clock, redis, redisNoRead, pending,
                   noRemoval, granted,
                   announced>>

RECURSIVE IssueAll(_, _, _)
IssueAll(pend, args, i) ==
    IF i > Len(args) THEN pend
    ELSE IssueAll(pend (+) SetToBag({RedisRequest(MutatingOp, DateNow, args[i], TRUE, pend)}),
                  args, i + 1)

RedisBurst ==
    /\ backend = "redis"
    /\ ~burst.on
    /\ pending = EmptyBag
    /\ calls + MaxInFlight <= CallBudget
    /\ SlotsLeft(ReadOp,
                 RedisExec(RedisRequest(ReadOp, DateNow, NoArg, FALSE, pending),
                             redis, DateNow).res) = 1
    /\ \E args \in [1..MaxInFlight -> BurstArgs] :
          pending' = IssueAll(pending, args, 1)
    /\ burst' = [on |-> TRUE, t |-> DateNow, done |-> 0, ok |-> 0]
    /\ calls' = calls + MaxInFlight
    /\ UNCHANGED <<algorithm, backend, clock, mem, redis, last, admitted,
                   memNoRead, redisNoRead, noRemoval, granted,
                   announced>>

MemoryFixedWindowConsume ==
    algorithm = "FixedWindow" /\ MemoryCall("consume", NoArg)

MemoryFixedWindowGetRemaining ==
    algorithm = "FixedWindow" /\ MemoryCall("getRemaining", NoArg)

IORedisFixedWindowConsume ==
    algorithm = "FixedWindow" /\ RedisIssue("consume", NoArg)

IORedisFixedWindowGetRemaining ==
    algorithm = "FixedWindow" /\ RedisIssue("getRemaining", NoArg)

MemorySlidingWindowConsume ==
    algorithm = "SlidingWindow" /\ MemoryCall("consume", NoArg)

MemorySlidingWindowGetRemaining ==
    algorithm = "SlidingWindow" /\ MemoryCall("getRemaining", NoArg)

\* The client side of one call on an IORedis sliding window limiter when the
\* clock advances between its two clock reads: getKeys reads the clock for
\* the window index of the two keys, then the caller reads it again for the
\* time it passes to the script.
RedisIssueAcrossTick(op) ==
    /\ algorithm = "SlidingWindow"
    /\ backend = "redis"
    /\ ~burst.on
    /\ BagCardinality(pending) < MaxInFlight
    /\ calls < CallBudget
    /\ clock < TimeBudget
    /\ calls' = calls + 1
    /\ clock' = clock + 1
    /\ redis' = DropExpired(redis, DateNowAt(clock + 1))
    /\ redisNoRead' = DropExpired(redisNoRead, DateNowAt(clock + 1))
    /\ pending' = pending (+) SetToBag({
           [RedisRequest(op, DateNowAt(clock + 1), NoArg, FALSE, pending)
               EXCEPT !.KEYS = SlidingWindow_getKeys(Key, DateNow)]})
    /\ burst' = IdleBurst
    /\ UNCHANGED <<algorithm, backend, mem, last, admitted, memNoRead,
                   noRemoval, granted, announced>>

IORedisSlidingWindowConsumeAcrossTick == RedisIssueAcrossTick("consume")

IORedisSlidingWindowGetRemainingAcrossTick == RedisIssueAcrossTick("getRemaining")

IORedisSlidingWindowConsume ==
    algorithm = "SlidingWindow" /\ RedisIssue("consume", NoArg)

IORedisSlidingWindowGetRemaining ==
    algorithm = "SlidingWindow" /\ RedisIssue("getRemaining", NoArg)

MemorySlidingLogConsume ==
    algorithm = "SlidingLog" /\ \E id \in IdArgs : MemoryCall("consume", id)

MemorySlidingLogGetRemaining ==
    algorithm = "SlidingLog" /\ MemoryCall("getRemaining", NoArg)

IORedisSlidingLogConsume ==
    algorithm = "SlidingLog" /\ \E id \in IdArgs : RedisIssue("consume", id)

IORedisSlidingLogGetRemaining ==
    algorithm = "SlidingLog" /\ RedisIssue("getRemaining", NoArg)

MemoryTokenBucketConsume ==
    algorithm = "TokenBucket" /\ \E n \in TokenArgs : MemoryCall("consume", n)

MemoryTokenBucketGetRemainingTokens ==
    algorithm = "TokenBucket" /\ MemoryCall("getRemainingTokens", NoArg)

MemoryTokenBucketAddTokens ==
    algorithm = "TokenBucket" /\ \E a \in AmountArgs : MemoryCall("addTokens", a)

MemoryTokenBucketRemoveTokens ==
    algorithm = "TokenBucket" /\ \E a \in AmountArgs : MemoryCall("removeTokens", a)

IORedisTokenBucketConsume ==
    algorithm = "TokenBucket" /\ \E n \in TokenArgs : RedisIssue("consume", n)

IORedisTokenBucketGetRemainingTokens ==
    algorithm = "TokenBucket" /\ RedisIssue("getRemainingTokens", NoArg)

\* addTokens / removeTokens: "if (amount <= 0) return;" before any Redis call
IORedisTokenBucketAddTokens ==
    /\ algorithm = "TokenBucket"
    /\ \E a \in AmountArgs :
          IF a <= 0 THEN RedisLocal("addTokens", a, [threw |-> FALSE])
          ELSE RedisIssue("addTokens", a)

IORedisTokenBucketRemoveTokens ==
    /\ algorithm = "TokenBucket"
    /\ \E a \in AmountArgs :
          IF a <= 0 THEN RedisLocal("removeTokens", a, [threw |-> FALSE])
          ELSE RedisIssue("removeTokens", a)

MemoryLeakyBucketConsume ==
    algorithm = "LeakyBucket" /\ MemoryCall("consume", NoArg)

MemoryLeakyBucketGetState ==
    algorithm = "LeakyBucket" /\ MemoryCall("getState", NoArg)

IORedisLeakyBucketConsume ==
    algorithm = "LeakyBucket" /\ RedisIssue("consume", "a")

IORedisLeakyBucketGetState ==
    algorithm = "LeakyBucket" /\ RedisIssue("getState", NoArg)

MemoryThrottlingThrottle ==
    algorithm = "Throttling" /\ MemoryCall("throttle", NoArg)

MemoryThrottlingGetStatus ==
    algorithm = "Throttling" /\ MemoryCall("getStatus", NoArg)

IORedisThrottlingThrottle ==
    algorithm = "Throttling" /\ RedisIssue("throttle", NoArg)

IORedisThrottlingGetStatus ==
    algorithm = "Throttling" /\ RedisIssue("getStatus", NoArg)

Next ==
    \/ Tick
    \/ RedisCommit
    \/ MemoryBurst
    \/ RedisBurst
    \/ MemoryFixedWindowConsume
    \/ MemoryFixedWindowGetRemaining
    \/ IORedisFixedWindowConsume
    \/ IORedisFixedWindowGetRemaining
    \/ MemorySlidingWindowConsume
    \/ MemorySlidingWindowGetRemaining
    \/ IORedisSlidingWindowConsume
    \/ IORedisSlidingWindowGetRemaining
    \/ MemorySlidingLogConsume
    \/ MemorySlidingLogGetRemaining
    \/ IORedisSlidingLogConsume
    \/ IORedisSlidingLogGetRemaining
    \/ MemoryTokenBucketConsume
    \/ MemoryTokenBucketGetRemainingTokens
    \/ MemoryTokenBucketAddTokens
    \/ MemoryTokenBucketRemoveTokens
    \/ IORedisTokenBucketConsume
    \/ IORedisTokenBucketGetRemainingTokens
    \/ IORedisTokenBucketAddTokens
    \/ IORedisTokenBucketRemoveTokens
    \/ MemoryLeakyBucketConsume
    \/ MemoryLeakyBucketGetState
    \/ IORedisLeakyBucketConsume
    \/ IORedisLeakyBucketGetState
    \/ MemoryThrottlingThrottle
    \/ MemoryThrottlingGetStatus
    \/ IORedisThrottlingThrottle
    \/ IORedisThrottlingGetStatus

Spec == Init /\ [][Next]_vars

(* One specification per algorithm, both backends *)

NextFixedWindow ==
    \/ Tick
    \/ RedisCommit
    \/ MemoryBurst
    \/ RedisBurst
    \/ MemoryFixedWindowConsume
    \/ MemoryFixedWindowGetRemaining
    \/ IORedisFixedWindowConsume
    \/ IORedisFixedWindowGetRemaining

SpecFixedWindow == InitFor({"FixedWindow"}) /\ [][NextFixedWindow]_vars

NextSlidingWindow ==
    \/ Tick
    \/ RedisCommit
    \/ MemoryBurst
    \/ RedisBurst
    \/ MemorySlidingWindowConsume
    \/ MemorySlidingWindowGetRemaining
    \/ IORedisSlidingWindowConsume
    \/ IORedisSlidingWindowGetRemaining

SpecSlidingWindow == InitFor({"SlidingWindow"}) /\ [][NextSlidingWindow]_vars

NextSlidingLog ==
    \/ Tick
    \/ RedisCommit
    \/ MemoryBurst
    \/ RedisBurst
    \/ MemorySlidingLogConsume
    \/ MemorySlidingLogGetRemaining
    \/ IORedisSlidingLogConsume
    \/ IORedisSlidingLogGetRemaining

SpecSlidingLog == InitFor({"SlidingLog"}) /\ [][NextSlidingLog]_vars

NextTokenBucket ==
    \/ Tick
    \/ RedisCommit
    \/ MemoryBurst
    \/ RedisBurst
    \/ MemoryTokenBucketConsume
    \/ MemoryTokenBucketGetRemainingTokens
    \/ MemoryTokenBucketAddTokens
    \/ MemoryTokenBucketRemoveTokens
    \/ IORedisTokenBucketConsume
    \/ IORedisTokenBucketGetRemainingTokens
    \/ IORedisTokenBucketAddTokens
    \/ IORedisTokenBucketRemoveTokens

SpecTokenBucket == InitFor({"TokenBucket"}) /\ [][NextTokenBucket]_vars

NextLeakyBucket ==
    \/ Tick
    \/ RedisCommit
    \/ MemoryBurst
    \/ RedisBurst
    \/ MemoryLeakyBucketConsume
    \/ MemoryLeakyBucketGetState
    \/ IORedisLeakyBucketConsume
    \/ IORedisLeakyBucketGetState

SpecLeakyBucket == InitFor({"LeakyBucket"}) /\ [][NextLeakyBucket]_vars

NextThrottling ==
    \/ Tick
    \/ RedisCommit
    \/ MemoryBurst
    \/ RedisBurst
    \/ MemoryThrottlingThrottle
    \/ MemoryThrottlingGetStatus
    \/ IORedisThrottlingThrottle
    \/ IORedisThrottlingGetStatus

SpecThrottling == InitFor({"Throttling"}) /\ [][NextThrottling]_vars

(* The IORedis limiters on a store whose calls may fail *)

\* time passes, within the first ShortTime ticks
EarlyTick == clock < ShortTime /\ Tick

NextStoreFailure ==
    \/ EarlyTick
    \/ RedisCommit
    \/ RedisFail
    \/ IORedisFixedWindowConsume
    \/ IORedisFixedWindowGetRemaining
    \/ IORedisSlidingWindowConsume
    \/ IORedisSlidingWindowGetRemaining
    \/ IORedisSlidingLogConsume
    \/ IORedisSlidingLogGetRemaining
    \/ IORedisTokenBucketConsume
    \/ IORedisTokenBucketGetRemainingTokens
    \/ IORedisTokenBucketAddTokens
    \/ IORedisTokenBucketRemoveTokens
    \/ IORedisLeakyBucketConsume
    \/ IORedisLeakyBucketGetState
    \/ IORedisThrottlingThrottle
    \/ IORedisThrottlingGetStatus

InitStoreFailure == InitFor(Algorithms) /\ backend = "redis"

SpecStoreFailure == InitStoreFailure /\ [][NextStoreFailure]_vars

(* The IORedis limiters, with the run in which no key ever expires         *)
(* followed next to the run in which Redis removes keys at their TTL.      *)

(* The optional sweeps of the Memory limiters.  MemoryThrottling has none. *)

MemoryCleanup(storage, nowMs) ==
    CASE algorithm = "FixedWindow" -> MemoryFixedWindow_cleanupAllExpired(storage, nowMs)
      [] algorithm = "SlidingWindow" -> MemorySlidingWindow_cleanup(storage, nowMs)
      [] algorithm = "SlidingLog" -> MemorySlidingLog_cleanup(storage, nowMs)
      [] algorithm = "TokenBucket" -> MemoryTokenBucket_cleanup(storage, nowMs)
      [] algorithm = "LeakyBucket" -> MemoryLeakyBucket_cleanupAllExpired(storage, nowMs)

\* one sweep, called at any time between two calls; the run without
\* removals does not make it
MemorySweep ==
    /\ backend = "memory"
    /\ mem' = MemoryCleanup(mem, DateNow)
    /\ memNoRead' = MemoryCleanup(memNoRead, DateNow)
    /\ UNCHANGED <<algorithm, backend, clock, redis, redisNoRead, pending, last,
                   admitted, burst, calls, noRemoval, granted,
                   announced>>

MemoryFixedWindowCleanupAllExpired == algorithm = "FixedWindow" /\ MemorySweep

MemorySlidingWindowCleanup == algorithm = "SlidingWindow" /\ MemorySweep

MemorySlidingLogCleanup == algorithm = "SlidingLog" /\ MemorySweep

MemoryTokenBucketCleanup == algorithm = "TokenBucket" /\ MemorySweep

MemoryLeakyBucketCleanupAllExpired == algorithm = "LeakyBucket" /\ MemorySweep

SweptAlgorithms ==
    {"FixedWindow", "SlidingWindow", "SlidingLog", "TokenBucket", "LeakyBucket"}

NextSweep ==
    \/ Tick
    \/ MemoryFixedWindowConsume
    \/ MemoryFixedWindowGetRemaining
    \/ MemoryFixedWindowCleanupAllExpired
    \/ MemorySlidingWindowConsume
    \/ MemorySlidingWindowGetRemaining
    \/ MemorySlidingWindowCleanup
    \/ MemorySlidingLogConsume
    \/ MemorySlidingLogGetRemaining
    \/ MemorySlidingLogCleanup
    \/ MemoryTokenBucketConsume
    \/ MemoryTokenBucketGetRemainingTokens
    \/ MemoryTokenBucketAddTokens
    \/ MemoryTokenBucketRemoveTokens
    \/ MemoryTokenBucketCleanup
    \/ MemoryLeakyBucketConsume
    \/ MemoryLeakyBucketGetState
    \/ MemoryLeakyBucketCleanupAllExpired

InitSweep == InitWith(SweptAlgorithms, TRUE) /\ backend = "memory"

SpecSweep == InitSweep /\ [][NextSweep]_vars

NextNoExpiry ==
    \/ Tick
    \/ RedisCommit
    \/ IORedisFixedWindowConsume
    \/ IORedisFixedWindowGetRemaining
    \/ IORedisSlidingWindowConsume
    \/ IORedisSlidingWindowGetRemaining
    \/ IORedisSlidingLogConsume
    \/ IORedisSlidingLogGetRemaining
    \/ IORedisTokenBucketConsume
    \/ IORedisTokenBucketGetRemainingTokens
    \/ IORedisTokenBucketAddTokens
    \/ IORedisTokenBucketRemoveTokens
    \/ IORedisLeakyBucketConsume
    \/ IORedisLeakyBucketGetState
    \/ IORedisThrottlingThrottle
    \/ IORedisThrottlingGetStatus

InitNoExpiry == InitWith(Algorithms, TRUE) /\ backend = "redis"

SpecNoExpiry == InitNoExpiry /\ [][NextNoExpiry]_vars

(* One limiter called by two callers: the calls of the second caller, and  *)
(* the specification in which both callers call.                           *)

\* what a call of the second caller takes from the budget of calls
OtherKeyCost == 2

OtherKeyArgs(op) ==
    CASE algorithm = "SlidingLog" /\ op = "consume" -> IdArgs
      [] algorithm = "LeakyBucket" /\ op = "consume" /\ backend = "redis" -> {"a"}
      [] algorithm = "TokenBucket" /\ op = "consume" -> {Tokens(1), Tokens(2)}
      [] algorithm = "TokenBucket" /\ op \in {"addTokens", "removeTokens"} ->
            {Tokens(1)}
      [] OTHER -> {NoArg}

MemoryOtherKeyCall(op) ==
    \E arg \in OtherKeyArgs(op) :
        LET r == MemoryExecFor(OtherKey, op, mem, DateNow, arg)
            rNo == MemoryExecFor(OtherKey, op, memNoRead, DateNow, arg)
        IN  /\ backend = "memory"
            /\ calls + OtherKeyCost <= CallBudget
            /\ calls' = calls + OtherKeyCost
            /\ mem' = r.st
            /\ memNoRead' = IF op \in ReadOps THEN memNoRead ELSE rNo.st
            /\ last' = CallRecordFor(OtherKey, op, arg, DateNow, mem, r, rNo)
            /\ burst' = IdleBurst
            /\ UNCHANGED <<algorithm, backend, clock, redis, redisNoRead, pending,
                           admitted, noRemoval, granted,
                   announced>>

RedisOtherKeyIssue(op) ==
    \E arg \in OtherKeyArgs(op) :
        /\ backend = "redis"
        /\ ~burst.on
        /\ BagCardinality(pending) < MaxInFlight
        /\ calls + OtherKeyCost <= CallBudget
        /\ calls' = calls + OtherKeyCost
        /\ pending' = pending (+)
              SetToBag({RedisRequestFor(OtherKey, op, DateNow, arg, FALSE, pending)})
        /\ burst' = IdleBurst
        /\ UNCHANGED <<algorithm, backend, clock, mem, redis, last, admitted,
                       memNoRead, redisNoRead, noRemoval, granted,
                   announced>>

MemoryOtherKeyMutate == MemoryOtherKeyCall(MutatingOp)

MemoryOtherKeyRead == MemoryOtherKeyCall(ReadOp)

MemoryOtherKeyAddTokens ==
    algorithm = "TokenBucket" /\ MemoryOtherKeyCall("addTokens")

MemoryOtherKeyRemoveTokens ==
    algorithm = "TokenBucket" /\ MemoryOtherKeyCall("removeTokens")

IORedisOtherKeyMutate == RedisOtherKeyIssue(MutatingOp)

IORedisOtherKeyRead == RedisOtherKeyIssue(ReadOp)

IORedisOtherKeyAddTokens ==
    algorithm = "TokenBucket" /\ RedisOtherKeyIssue("addTokens")

IORedisOtherKeyRemoveTokens ==
    algorithm = "TokenBucket" /\ RedisOtherKeyIssue("removeTokens")

NextTwoKeys ==
    \/ EarlyTick
    \/ RedisCommit
    \/ MemoryOtherKeyMutate
    \/ MemoryOtherKeyRead
    \/ MemoryOtherKeyAddTokens
    \/ MemoryOtherKeyRemoveTokens
    \/ IORedisOtherKeyMutate
    \/ IORedisOtherKeyRead
    \/ IORedisOtherKeyAddTokens
    \/ IORedisOtherKeyRemoveTokens
    \/ MemoryFixedWindowConsume
    \/ MemoryFixedWindowGetRemaining
    \/ IORedisFixedWindowConsume
    \/ IORedisFixedWindowGetRemaining
    \/ MemorySlidingWindowConsume
    \/ MemorySlidingWindowGetRemaining
    \/ IORedisSlidingWindowConsume
    \/ IORedisSlidingWindowGetRemaining
    \/ MemorySlidingLogConsume
    \/ MemorySlidingLogGetRemaining
    \/ IORedisSlidingLogConsume
    \/ IORedisSlidingLogGetRemaining
    \/ MemoryTokenBucketConsume
    \/ MemoryTokenBucketGetRemainingTokens
    \/ MemoryTokenBucketAddTokens
    \/ MemoryTokenBucketRemoveTokens
    \/ IORedisTokenBucketConsume
    \/ IORedisTokenBucketGetRemainingTokens
    \/ IORedisTokenBucketAddTokens
    \/ IORedisTokenBucketRemoveTokens
    \/ MemoryLeakyBucketConsume
    \/ MemoryLeakyBucketGetState
    \/ IORedisLeakyBucketConsume
    \/ IORedisLeakyBucketGetState
    \/ MemoryThrottlingThrottle
    \/ MemoryThrottlingGetStatus
    \/ IORedisThrottlingThrottle
    \/ IORedisThrottlingGetStatus

SpecTwoKeys == Init /\ [][NextTwoKeys]_vars

(* Two instances of a limiter class that names its instances, on one       *)
(* store: the store keys they build for their callers                      *)

MaxTextLen == 3

Chars == {"a", ":"}

\* limiter names and caller keys: the strings of 1..MaxTextLen characters
Texts == UNION {[1..n -> Chars] : n \in 1..MaxTextLen}

storeKey(name, key) ==
    IF algorithm = "FixedWindow" THEN FixedWindow_storeKey(name, key, DateNow)
    ELSE Throttling_storeKey(name, key)

\* the instance called nameA builds the key of keyA, the one called nameB
\* the key of keyB, at the same time; once in a behaviour
BuildStoreKeys ==
    /\ calls = 0
    /\ calls' = 1
    /\ \E nameA \in Texts, keyA \in Texts, nameB \in Texts, keyB \in Texts :
          last' = [op |-> "getKey",
                   a |-> [name |-> nameA, key |-> keyA],
                   b |-> [name |-> nameB, key |-> keyB],
                   storeKeyA |-> storeKey(nameA, keyA),
                   storeKeyB |-> storeKey(nameB, keyB)]
    /\ UNCHANGED <<algorithm, backend, clock, mem, redis, pending, admitted,
                   memNoRead, redisNoRead, burst, noRemoval, granted,
                   announced>>

NextKeys == Tick \/ BuildStoreKeys

InitKeys == InitFor({"FixedWindow", "Throttling"}) /\ backend = "redis"

SpecKeys == InitKeys /\ [][NextKeys]_vars

(* Construction.  A constructor either throws or returns the object with   *)
(* the fields it stored; interval, refillInterval are the seconds and      *)
(* minInterval the milliseconds of the Duration passed.                    *)

NoObject == [made |-> FALSE]

ThrowError(message) == [threw |-> TRUE, message |-> message, obj |-> NoObject]

Constructed(fields) == [threw |-> FALSE, message |-> "", obj |-> fields]

\* MemoryFixedWindow, MemorySlidingWindow, MemorySlidingLog: the same two tests
MemoryWindow_constructor(lim, secs) ==
    IF lim <= 0 THEN ThrowError("Limit must be greater than 0")
    ELSE IF secs <= 0 THEN ThrowError("Interval must be greater than 0")
    ELSE Constructed([made |-> TRUE, limit |-> lim, interval |-> secs])

MemoryTokenBucket_constructor(cap, amount, secs) ==
    IF cap <= 0 THEN ThrowError("Capacity must be greater than 0")
    ELSE IF amount <= 0 THEN ThrowError("Refill amount must be greater than 0")
    ELSE IF secs <= 0 THEN ThrowError("Refill interval must be greater than 0")
    ELSE Constructed([made |-> TRUE, capacity |-> cap, refillAmount |-> amount,
                      refillInterval |-> secs])

MemoryLeakyBucket_constructor(cap, secs) ==
    IF cap <= 0 THEN ThrowError("Capacity must be greater than 0")
    ELSE IF secs <= 0 THEN ThrowError("Interval must be greater than 0")
    ELSE Constructed([made |-> TRUE, capacity |-> cap, interval |-> secs])

MemoryThrottling_constructor(ms) ==
    IF ms <= 0 THEN ThrowError("Minimum interval must be greater than 0")
    ELSE Constructed([made |-> TRUE, minInterval |-> ms])

\* a faulty constructor: the interval is not tested
IORedisWindow_constructor_anyInterval(lim, secs) ==
    IF lim <= 0
    THEN ThrowError("Limit and interval must be positive values.")
    ELSE Constructed([made |-> TRUE, limit |-> lim, interval |-> secs])

\* IORedisFixedWindow, IORedisSlidingWindow, IORedisSlidingLog: one test,
\* made before anything is stored or defined on the client
IORedisWindow_constructor(lim, secs) ==
    IF lim <= 0 \/ secs <= 0
    THEN ThrowError("Limit and interval must be positive values.")
    ELSE Constructed([made |-> TRUE, limit |-> lim, interval |-> secs])

IORedisTokenBucket_constructor(cap, amount, secs) ==
    IF cap <= 0 \/ amount <= 0 \/ secs <= 0
    THEN ThrowError("Capacity, refill amount, and interval must be positive values.")
    ELSE Constructed([made |-> TRUE, capacity |-> cap, refillAmount |-> amount,
                      refillInterval |-> secs])

IORedisLeakyBucket_constructor(cap, secs) ==
    IF cap <= 0 \/ secs <= 0
    THEN ThrowError("Capacity and interval must be positive values.")
    ELSE Constructed([made |-> TRUE, capacity |-> cap, interval |-> secs])

IORedisThrottling_constructor(ms) ==
    IF ms <= 0 THEN ThrowError("Minimum interval must be a positive value.")
    ELSE Constructed([made |-> TRUE, minInterval |-> ms])

\* getMinIntervalSeconds, in thousandths of a second.
\* MemoryThrottling: this.minInterval / 1000
MemoryThrottling_getMinIntervalSeconds(obj) == obj.minInterval

\* IORedisThrottlingRateLimiter: Math.ceil(this.minInterval / 1000)
IORedisThrottling_getMinIntervalSeconds(obj) == Ceil(obj.minInterval, 1000) * 1000

\* what the accessors of a constructed object return; the other accessors
\* return the stored field
accessors(obj) ==
    IF algorithm # "Throttling" THEN obj
    ELSE [made |-> TRUE,
          minInterval |-> obj.minInterval,
          minIntervalSeconds |->
              IF backend = "memory" THEN MemoryThrottling_getMinIntervalSeconds(obj)
              ELSE IORedisThrottling_getMinIntervalSeconds(obj)]

\* the values a parameter is given: negative, zero, positive
ParamArgs == {-1, 0, 1, 2}

\* minInterval, in milliseconds
MsArgs == {-1000, 0, 500, 1000, 1500}

\* the parameters of the constructor of the class under test; the others
\* are left out
ConstructorArgs ==
    CASE algorithm \in {"FixedWindow", "SlidingWindow", "SlidingLog"} ->
            {[limit |-> l, interval |-> i] : l \in ParamArgs, i \in ParamArgs}
      [] algorithm = "TokenBucket" ->
            {[capacity |-> c, refillAmount |-> a, refillInterval |-> i] :
                c \in ParamArgs, a \in ParamArgs, i \in ParamArgs}
      [] algorithm = "LeakyBucket" ->
            {[capacity |-> c, interval |-> i] : c \in ParamArgs, i \in ParamArgs}
      [] algorithm = "Throttling" -> {[minInterval |-> m] : m \in MsArgs}

new(args) ==
    CASE algorithm \in {"FixedWindow", "SlidingWindow", "SlidingLog"} ->
            IF backend = "memory" THEN MemoryWindow_constructor(args.limit, args.interval)
            ELSE IORedisWindow_constructor(args.limit, args.interval)
      [] algorithm = "TokenBucket" ->
            IF backend = "memory"
            THEN MemoryTokenBucket_constructor(args.capacity, args.refillAmount,
                                               args.refillInterval)
            ELSE IORedisTokenBucket_constructor(args.capacity, args.refillAmount,
                                                args.refillInterval)
      [] algorithm = "LeakyBucket" ->
            IF backend = "memory"
            THEN MemoryLeakyBucket_constructor(args.capacity, args.interval)
            ELSE IORedisLeakyBucket_constructor(args.capacity, args.interval)
      [] algorithm = "Throttling" ->
            IF backend = "memory" THEN MemoryThrottling_constructor(args.minInterval)
            ELSE IORedisThrottling_constructor(args.minInterval)

\* one construction, once in a behaviour
Construct ==
    /\ calls = 0
    /\ calls' = 1
    /\ \E args \in ConstructorArgs :
          LET r == new(args)
          IN  last' = [op |-> "new", args |-> args, threw |-> r.threw,
                       obj |-> r.obj,
                       got |-> IF r.threw THEN NoObject ELSE accessors(r.obj)]
    /\ UNCHANGED <<algorithm, backend, clock, mem, redis, pending, admitted,
                   memNoRead, redisNoRead, burst, noRemoval, granted,
                   announced>>

NextConstruct == Tick \/ Construct

SpecConstruct == Init /\ [][NextConstruct]_vars

(* The two backends side by side: a Memory limiter and the IORedis limiter *)
(* of the same configuration are given the same calls at the same times,   *)
(* one call after the other, each answered before the next is made.  mem   *)
(* is the Map of the first and redis the store of the second.              *)

ComparedAlgorithms == {"FixedWindow", "SlidingWindow", "TokenBucket"}

\* one call on the IORedis limiter, answered at the instant it is made
IORedisCall(op, db, nowMs, arg) ==
    IF algorithm = "TokenBucket" /\ op \in {"addTokens", "removeTokens"} /\ arg <= 0
    THEN [st |-> db, res |-> [threw |-> FALSE]]
    ELSE RedisExec(RedisRequest(op, nowMs, arg, FALSE, EmptyBag), db, nowMs)

BothCall(op, arg) ==
    LET m == MemoryExec(op, mem, DateNow, arg)
        r == IORedisCall(op, redis, DateNow, arg)
    IN  /\ backend = "memory"
        /\ calls < CallBudget
        /\ calls' = calls + 1
        /\ mem' = m.st
        /\ redis' = r.st
        /\ last' = [key |-> Key, op |-> op, arg |-> arg, t |-> DateNow,
                    pre |-> mem, post |-> m.st, res |-> m.res,
                    preRedis |-> redis, postRedis |-> r.st, resRedis |-> r.res]
        /\ UNCHANGED <<algorithm, backend, clock, pending, admitted, memNoRead,
                       redisNoRead, burst, noRemoval, granted,
                   announced>>

\* TokenBucket: the amounts compared are the valid ones, zero or more
BothConsume ==
    IF algorithm = "TokenBucket"
    THEN \E n \in {x \in TokenArgs : x >= 0} : BothCall("consume", n)
    ELSE BothCall("consume", NoArg)

BothRead == BothCall(ReadOp, NoArg)

BothAddTokens ==
    algorithm = "TokenBucket" /\ \E a \in AmountArgs : BothCall("addTokens", a)

BothRemoveTokens ==
    algorithm = "TokenBucket" /\ \E a \in AmountArgs : BothCall("removeTokens", a)

NextBackends ==
    \/ Tick
    \/ BothConsume
    \/ BothRead
    \/ BothAddTokens
    \/ BothRemoveTokens

InitBackends == InitFor(ComparedAlgorithms) /\ backend = "memory"

SpecBackends == InitBackends /\ [][NextBackends]_vars

----------------------------------------------------------------------------
(* The tokens a bucket hands out: consume with amounts that are not
   negative, the reads and removeTokens, on either backend, and no
   addTokens *)

GrantableArgs == {n \in TokenArgs : n >= 0}

MemoryConsumeTokens ==
    algorithm = "TokenBucket" /\ \E n \in GrantableArgs : MemoryCall("consume", n)

IORedisConsumeTokens ==
    algorithm = "TokenBucket" /\ \E n \in GrantableArgs : RedisIssue("consume", n)

NextGranted ==
    \/ Tick
    \/ RedisCommit
    \/ MemoryConsumeTokens
    \/ MemoryTokenBucketGetRemainingTokens
    \/ MemoryTokenBucketRemoveTokens
    \/ IORedisConsumeTokens
    \/ IORedisTokenBucketGetRemainingTokens
    \/ IORedisTokenBucketRemoveTokens

InitGranted == InitAll({"TokenBucket"}, FALSE, TRUE, FALSE)

SpecGranted == InitGranted /\ [][NextGranted]_vars

----------------------------------------------------------------------------
(* Throttling with the reported nextAllowedAt kept: throttle and getStatus
   on either backend *)

NextAnnounced ==
    \/ Tick
    \/ RedisCommit
    \/ MemoryThrottlingThrottle
    \/ MemoryThrottlingGetStatus
    \/ IORedisThrottlingThrottle
    \/ IORedisThrottlingGetStatus

InitAnnounced == InitAll({"Throttling"}, FALSE, FALSE, TRUE)

SpecAnnounced == InitAnnounced /\ [][NextAnnounced]_vars

----------------------------------------------------------------------------
(* The sliding window limiters with the clock free to advance between the
   two clock reads of an IORedis call *)

NextClockReads ==
    \/ Tick
    \/ RedisCommit
    \/ MemorySlidingWindowConsume
    \/ MemorySlidingWindowGetRemaining
    \/ IORedisSlidingWindowConsume
    \/ IORedisSlidingWindowGetRemaining
    \/ IORedisSlidingWindowConsumeAcrossTick
    \/ IORedisSlidingWindowGetRemainingAcrossTick

SpecClockReads == InitFor({"SlidingWindow"}) /\ [][NextClockReads]_vars

----------------------------------------------------------------------------
(* Claims *)

\* C1: on every limiter and either backend, when the read-only accessor
\* reports exactly one admission left and MaxInFlight > 1 consume / throttle
\* calls are issued at the same instant, exactly one of them succeeds once
\* all have completed, in every order of completion.
C1_ExactlyOneOfBurstSucceeds ==
    burst.done = MaxInFlight => burst.ok = 1

\* C1 fails on IORedisSlidingLog: a burst in which a call repeats a stored
\* uniqueRequestId is admitted twice, all calls completing at the instant
\* they were issued.
C1_SlidingLogBurstAdmitsTwo ==
    /\ algorithm = "SlidingLog" /\ backend = "redis"
    /\ burst.done = MaxInFlight /\ DateNow = burst.t
    /\ burst.ok = 2

\* successful consume / throttle calls whose timestamp lies in the set S
RECURSIVE AdmittedIn(_, _)
AdmittedIn(adm, S) ==
    IF S = {} THEN 0
    ELSE LET s == CHOOSE x \in S : TRUE
         IN  adm[s] + AdmittedIn(adm, S \ {s})

\* the timestamps of the window [w, w + interval), in seconds
StampsOfWindow(w) == {s \in Stamps : getWindowStart(s \div 1000) = w}

\* C2: FixedWindow on both backends: in every window [k * interval,
\* (k + 1) * interval) the consume calls whose timestamp lies in the window
\* and that return success are at most limit, whatever the interleaving of
\* consume and getRemaining.
C2_FixedWindowAtMostLimit ==
    algorithm = "FixedWindow" =>
        \A s \in Stamps :
            AdmittedIn(admitted, StampsOfWindow(getWindowStart(s \div 1000))) <= limit

\* C2 fails on IORedisFixedWindow: limit + 1 consume calls stamped in one
\* window have succeeded.
C2_RedisWindowOverLimit ==
    /\ algorithm = "FixedWindow" /\ backend = "redis"
    /\ \E s \in Stamps :
          AdmittedIn(admitted, StampsOfWindow(getWindowStart(s \div 1000))) = limit + 1

\* the timestamps in (t - interval, t], t in milliseconds
StampsOfLog(t) == {s \in Stamps : t - interval * 1000 < s /\ s <= t}

\* C3: SlidingLog on both backends: for every time t, the consume calls
\* whose timestamp lies in (t - interval, t] and that return success are at
\* most limit, whether uniqueRequestId is given, omitted or repeated.
C3_SlidingLogAtMostLimit ==
    algorithm = "SlidingLog" =>
        \A t \in Stamps : AdmittedIn(admitted, StampsOfLog(t)) <= limit

\* C3 fails on IORedisSlidingLog: limit + 1 calls with one timestamp have
\* succeeded, every call having completed at the instant it was issued.
C3_RedisLogOverLimit ==
    /\ algorithm = "SlidingLog" /\ backend = "redis"
    /\ clock = 0 /\ pending = EmptyBag
    /\ admitted[DateNow] = limit + 1

\* the stored timestamp of the last allowed request, 0 when none is stored
lastAllowedAt ==
    IF backend = "memory" THEN lastRequestTimeOf(mem, Key)
    ELSE GETnum(redis, Throttling_getKey(Key))

\* C4: Throttling on both backends: any two throttle calls that return
\* success carry timestamps at least minInterval apart, in any order of
\* commit of concurrent calls, an older timestamp committing after a newer
\* one included.
C4_SuccessesMinIntervalApart ==
    algorithm = "Throttling" =>
        \A s1, s2 \in Stamps :
            /\ admitted[s1] <= 1
            /\ (admitted[s1] > 0 /\ admitted[s2] > 0 /\ s1 < s2) => s2 - s1 >= minInterval

\* C4 fails on IORedisThrottling: two throttle calls less than minInterval
\* apart have both succeeded, the later-stamped one committing after the
\* key's TTL ran out.
C4_RedisSuccessesTooClose ==
    /\ algorithm = "Throttling" /\ backend = "redis"
    /\ \E s1, s2 \in Stamps :
          admitted[s1] > 0 /\ admitted[s2] > 0 /\ s1 < s2 /\ s2 - s1 < minInterval

\* the key's bucket is stored; its stored token count
bucketStored ==
    IF backend = "memory" THEN Has(mem, Key) ELSE Has(redis, TokenBucket_getKey(Key))

storedTokens ==
    IF backend = "memory" THEN mem[Key].tokens
    ELSE redis[TokenBucket_getKey(Key)].val.tokens

\* C5: TokenBucket on both backends: after any sequence of consume,
\* getRemainingTokens, addTokens and removeTokens calls with any numeric
\* arguments, the stored token count is between 0 and capacity.
C5_StoredTokensInRange ==
    (algorithm = "TokenBucket" /\ bucketStored) =>
        (0 <= storedTokens /\ storedTokens <= Tokens(capacity))

\* C5 fails on IORedisTokenBucket: a consume of a negative amount has
\* stored more than capacity tokens.
C5_RedisTokensOverCapacity ==
    /\ algorithm = "TokenBucket" /\ backend = "redis"
    /\ last.op = "consume" /\ last.arg < 0
    /\ bucketStored /\ storedTokens > Tokens(capacity)

\* the last completed call was TokenBucket.consume(key, n) with n < 0
NegativeConsumeDone ==
    algorithm = "TokenBucket" /\ last.op = "consume" /\ last.arg < 0

\* C6: TokenBucket.consume(key, n) with n < 0 fails with an invalid-argument
\* error on both backends, leaves the stored tokens and lastRefill as they
\* were, and never returns a success result.
C6_NegativeConsumeRejected ==
    NegativeConsumeDone => (last.res.threw /\ last.post = last.pre)

\* C6 fails on IORedisTokenBucket: consume(key, n) with n < 0 has returned
\* success and changed the stored bucket.
C6_RedisNegativeConsumeSucceeds ==
    /\ NegativeConsumeDone /\ backend = "redis"
    /\ ~last.res.threw /\ last.res.success
    /\ last.post # last.pre

\* the bucket a TokenBucket call found: the stored one, or for a key never
\* seen before a full one anchored at the call's time
bucketFound(store, t) ==
    CASE backend = "memory" /\ Has(store, Key) ->
            [tokens |-> store[Key].tokens, anchor |-> store[Key].lastRefill]
      [] backend = "redis" /\ Has(store, TokenBucket_getKey(Key)) ->
            [tokens |-> store[TokenBucket_getKey(Key)].val.tokens,
             anchor |-> store[TokenBucket_getKey(Key)].val.last_updated]
      [] OTHER -> [tokens |-> Tokens(capacity), anchor |-> t \div 1000]

\* the tokens available at time t after the refill of the elapsed cycles
tokensAfterRefill(store, t) ==
    LET b == bucketFound(store, t)
        cycles == ((t \div 1000) - b.anchor) \div refillInterval
    IN  IF cycles > 0 THEN Min(Tokens(capacity), b.tokens + cycles * Tokens(refillAmount))
        ELSE b.tokens

\* the last completed call was TokenBucket.consume(key, n) with n >= 0
ConsumeDone ==
    algorithm = "TokenBucket" /\ last.op = "consume" /\ last.arg >= 0

ReturnedRemaining ==
    /\ algorithm # "Throttling"
    /\ last.op \in {"consume", "getRemaining", "getRemainingTokens", "getState"}
    /\ algorithm = "TokenBucket" => ~last.res.threw

\* the configured maximum: capacity of the buckets, limit of the others
MaxRemaining ==
    CASE algorithm = "TokenBucket" -> Tokens(capacity)
      [] algorithm = "LeakyBucket" -> capacity
      [] OTHER -> limit

\* C8: on every limiter and either backend, every remaining or
\* remainingTokens value returned by any operation, mutating or read-only,
\* successful or not, is between 0 and the limit (or capacity).
C8_RemainingInRange ==
    ReturnedRemaining =>
        /\ 0 <= RemainingOf(last.op, last.res)
        /\ RemainingOf(last.op, last.res) <= MaxRemaining

\* C8 fails on IORedisTokenBucket: a call has returned more remainingTokens
\* than capacity.
C8_RedisRemainingOverCapacity ==
    /\ algorithm = "TokenBucket" /\ backend = "redis"
    /\ ReturnedRemaining
    /\ last.res.remainingTokens > Tokens(capacity)

\* C9: for FixedWindow, SlidingLog, TokenBucket, LeakyBucket and Throttling
\* on either backend, read-only calls (getRemaining, getRemainingTokens,
\* getState, getStatus) do not change the key's state: every later call
\* returns exactly the result it returns in the run where the reads are
\* left out.
C9_ReadsLeaveLaterResults ==
    (algorithm # "SlidingWindow" /\ last.op # "none") =>
        last.res = last.resNoRead

\* C9 fails on MemoryTokenBucket: after a getRemainingTokens, a consume is
\* refused that succeeds in the run without the read.
C9_MemoryTokenBucketReadChangesResult ==
    /\ algorithm = "TokenBucket" /\ backend = "memory"
    /\ last.op = "consume" /\ last.arg >= 0
    /\ ~last.res.success /\ last.resNoRead.success

\* what throttle(key) returns in state store at time t
throttleResult(store, t) ==
    IF backend = "memory" THEN MemoryThrottling_throttle(store, Key, t).res
    ELSE throttleRequest(store, <<Throttling_getKey(Key)>>, t, t).res

\* C10: Throttling.getStatus(key) at time t returns exactly the success,
\* waitTime and nextAllowedAt that throttle(key) returns at time t in the
\* same state, and writes nothing, also when it reports success.
C10_GetStatusAsThrottleNoWrite ==
    (algorithm = "Throttling" /\ last.op = "getStatus") =>
        /\ last.res = throttleResult(last.pre, last.t)
        /\ last.post = last.pre

\* C10 happens: getStatus has reported success on a key whose last allowed
\* request is stored.
C10_GetStatusOnStoredKey ==
    /\ algorithm = "Throttling" /\ last.op = "getStatus"
    /\ last.pre # EmptyMap
    /\ last.res.success

\* C11: for every limiter, two calls to the same read-only accessor on the
\* same key with no elapsed time and no mutating call between them return
\* identical values.
C11_ImmediateReadsAgree ==
    last.op \in ReadOps => last.reread # "differs"

\* C11 happens: after an earlier call, a read-only accessor has been called
\* twice in a row at one instant on a key with stored state, and both calls
\* returned the same value.
C11_SecondReadAfterWritingRead ==
    /\ last.op \in ReadOps /\ last.reread = "same"
    /\ last.pre # EmptyMap
    /\ calls >= 3

\* the call at time t falls in a window other than the stored one: an
\* earlier window's count is stored and none for the window of t
inNewWindow(store, t) ==
    IF backend = "memory"
    THEN Has(store, Key) /\ store[Key].windowStart # getWindowStart(t \div 1000)
    ELSE /\ store # EmptyMap
         /\ ~Has(store, FixedWindow_getKey(Key, t))

\* the count stored for the earlier window is at least n
storedCountAtLeast(store, n) ==
    IF backend = "memory" THEN store[Key].count >= n
    ELSE \E k \in DOMAIN store : store[k].val >= n

\* C12: FixedWindow on both backends: the first consume whose timestamp
\* falls in a window different from the stored one succeeds with
\* remaining = limit - 1, whatever the earlier window's count was, and
\* getRemaining in a new window returns limit.
C12_NewWindowStartsFresh ==
    (algorithm = "FixedWindow" /\ last.op \in {"consume", "getRemaining"}
       /\ inNewWindow(last.pre, last.t)) =>
        IF last.op = "consume"
        THEN last.res.success /\ last.res.remaining = limit - 1
        ELSE last.res = limit

\* C12 happens: a consume has been made in a new window while the stored
\* window was exhausted.
C12_ConsumeAfterExhaustedWindow ==
    /\ algorithm = "FixedWindow" /\ last.op = "consume"
    /\ inNewWindow(last.pre, last.t)
    /\ storedCountAtLeast(last.pre, limit)

\* the counters a SlidingWindow call at time t works on: the count of the
\* window of t, the count of the window before it, and the start of the
\* window of t
windowCounters(store, t) ==
    LET currentWindowStart == ((t \div 1000) \div interval) * interval
    IN  IF backend = "memory"
        THEN rollover(IF Has(store, Key) THEN store[Key]
                      ELSE [current |-> 0, previous |-> 0,
                            currentWindowStart |-> currentWindowStart],
                      currentWindowStart)
        ELSE [current |-> GETnum(store, SlidingWindow_getKeys(Key, t)[1]),
              previous |-> GETnum(store, SlidingWindow_getKeys(Key, t)[2]),
              currentWindowStart |-> currentWindowStart]

\* floor(previous * max(0, (currentWindowStart + interval - now) / interval))
weightedPrevious(store, t) ==
    LET c == windowCounters(store, t)
    IN  (c.previous * Max(0, c.currentWindowStart + interval - (t \div 1000)))
            \div interval

weighted(store, t) == windowCounters(store, t).current + weightedPrevious(store, t)

TokenCallDone ==
    /\ algorithm = "TokenBucket"
    /\ \/ last.op = "getRemainingTokens"
       \/ last.op = "consume" /\ last.arg >= 0
       \/ last.op \in {"addTokens", "removeTokens"} /\ last.arg > 0

\* cycles = floor((now - lastRefill) / refillInterval) for a call at time t
refillCycles(store, t) ==
    ((t \div 1000) - bucketFound(store, t).anchor) \div refillInterval

\* lastRefill after the refill of the elapsed cycles: advanced by
\* cycles * refillInterval
anchorAfterRefill(store, t) ==
    LET b == bucketFound(store, t)
    IN  IF refillCycles(store, t) > 0
        THEN b.anchor + refillCycles(store, t) * refillInterval
        ELSE b.anchor

\* C14: TokenBucket on both backends, on every access path (consume,
\* getRemainingTokens, addTokens, removeTokens): when cycles > 0 the tokens
\* become min(capacity, tokens + cycles * refillAmount) and lastRefill
\* advances by exactly cycles * refillInterval, never to now: the elapsed
\* remainder of a partial cycle still counts toward the next refill.
C14_RefillKeepsRemainder ==
    (TokenCallDone /\ refillCycles(last.pre, last.t) > 0) =>
        /\ anchorAfterRefill(last.post, last.t) = anchorAfterRefill(last.pre, last.t)
        /\ last.op = "getRemainingTokens" =>
              tokensAfterRefill(last.post, last.t) = tokensAfterRefill(last.pre, last.t)

\* C14 fails on MemoryTokenBucket: getRemainingTokens has applied a refill
\* part of a cycle after the last one was due, and has stored the time of
\* the call as lastRefill.
C14_MemoryRefillSnapsToNow ==
    /\ algorithm = "TokenBucket" /\ backend = "memory"
    /\ last.op = "getRemainingTokens"
    /\ refillCycles(last.pre, last.t) > 0
    /\ anchorAfterRefill(last.pre, last.t) < last.t \div 1000
    /\ bucketFound(last.post, last.t).anchor = last.t \div 1000

\* C15: TokenBucket on both backends: a successful consume, of any amount,
\* 0 included, does not reset the refill anchor: after the call lastRefill
\* is the value the refill step alone produces, and the reported
\* nextRefillAt is that lastRefill + refillInterval.
C15_ConsumeKeepsAnchor ==
    (ConsumeDone /\ ~last.res.threw /\ last.res.success) =>
        /\ bucketFound(last.post, last.t).anchor = anchorAfterRefill(last.pre, last.t)
        /\ last.res.nextRefillAt = anchorAfterRefill(last.pre, last.t) + refillInterval

\* C15 fails on MemoryTokenBucket: with no refill due, a successful consume
\* of 0 tokens has moved lastRefill of a stored bucket to the time of the
\* call.
C15_MemoryConsumeResetsAnchor ==
    /\ ConsumeDone /\ backend = "memory"
    /\ last.arg = 0 /\ last.res.success
    /\ Has(last.pre, Key)
    /\ refillCycles(last.pre, last.t) = 0
    /\ bucketFound(last.pre, last.t).anchor < last.t \div 1000
    /\ bucketFound(last.post, last.t).anchor = last.t \div 1000
    /\ last.res.nextRefillAt = (last.t \div 1000) + refillInterval

\* the last completed call was addTokens or removeTokens of an amount a > 0
AddRemoveDone ==
    /\ algorithm = "TokenBucket"
    /\ last.op \in {"addTokens", "removeTokens"} /\ last.arg > 0

\* the tokens getRemainingTokens reports at time t in state store
tokensRead(store, t) ==
    IF backend = "memory"
    THEN MemoryTokenBucket_getRemainingTokens(store, Key, t).res.remainingTokens
    ELSE IORedisTokenBucket_getRemainingTokens(
             store, <<TokenBucket_getKey(Key)>>, t \div 1000).res.remainingTokens

\* clamp(refilled + a) for addTokens, clamp(refilled - a) for removeTokens
clampedAfter(op, refilled, a) ==
    IF op = "addTokens" THEN Min(Tokens(capacity), refilled + a)
    ELSE Max(0, refilled - a)

\* C16: TokenBucket.addTokens(key, a) and removeTokens(key, a) with a > 0
\* on both backends: the refill due for the elapsed time is applied first,
\* then the amount is added or removed and the result clamped into
\* [0, capacity]; the tokens read immediately afterwards are
\* clamp(refilled +/- a).
C16_AddRemoveAfterRefill ==
    AddRemoveDone =>
        tokensRead(last.post, last.t)
            = clampedAfter(last.op, tokensAfterRefill(last.pre, last.t), last.arg)

\* C16 fails on IORedisTokenBucket: removeTokens has run, with no delay, on
\* a stored bucket of a whole number of tokens within [0, capacity] with a
\* refill due, and the tokens read at the same instant are more than
\* clamp(refilled - a).
C16_RedisRemoveBeforeRefill ==
    /\ AddRemoveDone /\ backend = "redis" /\ last.op = "removeTokens"
    /\ DateNow = last.t
    /\ Has(last.pre, TokenBucket_getKey(Key))
    /\ bucketFound(last.pre, last.t).tokens \in {Tokens(n) : n \in 0..capacity}
    /\ refillCycles(last.pre, last.t) > 0
    /\ tokensRead(last.post, last.t)
          > clampedAfter(last.op, tokensAfterRefill(last.pre, last.t), last.arg)

\* the last completed call was addTokens or removeTokens of an amount a <= 0
AddRemoveNothingDone ==
    /\ algorithm = "TokenBucket"
    /\ last.op \in {"addTokens", "removeTokens"} /\ last.arg <= 0

\* C17: TokenBucket.addTokens(key, a) and removeTokens(key, a) with a <= 0
\* are no-ops on both backends: they complete without error and leave the
\* key's tokens and lastRefill unchanged.
C17_NonPositiveAmountIsNoOp ==
    AddRemoveNothingDone => (~last.res.threw /\ last.post = last.pre)

\* C17 fails on MemoryTokenBucket: addTokens or removeTokens of an amount
\* a <= 0 on a stored bucket has thrown an error.
C17_MemoryNonPositiveAmountThrows ==
    /\ AddRemoveNothingDone /\ backend = "memory"
    /\ Has(last.pre, Key)
    /\ last.res.threw

\* the last completed call was a consume refused for lack of tokens
ConsumeRefused ==
    ConsumeDone /\ ~last.res.threw /\ ~last.res.success

occupiedAt(adm, u) ==
    AdmittedIn(adm, {s \in Stamps : s <= u /\ u < s + interval * 1000})

\* the same just before the last completed call, made at time last.t
occupiedBefore ==
    occupiedAt(admitted, last.t)
        - (IF last.op = "consume" /\ last.res.success THEN 1 ELSE 0)

\* the entries a LeakyBucket call at time t finds in state store
queueSize(store, t) ==
    IF backend = "memory"
    THEN Len(cleanupExpired(IF Has(store, Key) THEN store[Key] ELSE << >>,
                            t \div 1000))
    ELSE LLEN(store, LeakyBucket_getKey(Key))

\* C19: LeakyBucket on both backends: an entry admitted at time t occupies
\* a slot at time u iff t <= u < t + interval, independently of any other
\* admission or access for the key; so a call finds exactly the entries
\* admitted less than interval ago, and a bucket filled at times
\* t1 <= ... <= tc admits a new request at any time >= t1 + interval.
C19_EntryOccupiesSlotForInterval ==
    (algorithm = "LeakyBucket" /\ last.op \in {"consume", "getState"}) =>
        /\ queueSize(last.pre, last.t) = occupiedBefore
        /\ (last.op = "consume" /\ occupiedBefore < capacity) => last.res.success

\* C19 fails on IORedisLeakyBucket: a consume made with no delay has been
\* refused although only one of the admitted entries, fewer than capacity,
\* is less than interval old.
C19_RedisRefusedAfterFirstEntryExpired ==
    /\ algorithm = "LeakyBucket" /\ backend = "redis"
    /\ last.op = "consume" /\ ~last.res.success
    /\ DateNow = last.t /\ pending = EmptyBag
    /\ occupiedBefore >= 1 /\ occupiedBefore < capacity

\* C20: LeakyBucket on both backends: consume succeeds iff the number of
\* unexpired entries is below capacity; on success it returns remaining =
\* capacity - (size after admission), on rejection remaining = 0 and the
\* queue is unchanged; getState returns size = number of unexpired entries
\* and remaining = capacity - size.
C20_LeakyBucketCountsUnexpired ==
    (algorithm = "LeakyBucket" /\ last.op \in {"consume", "getState"}) =>
        IF last.op = "getState"
        THEN /\ last.res.size = occupiedBefore
             /\ last.res.remaining = capacity - last.res.size
        ELSE /\ last.res.success <=> occupiedBefore < capacity
             /\ last.res.success =>
                   last.res.remaining = capacity - (occupiedBefore + 1)
             /\ ~last.res.success =>
                   /\ last.res.remaining = 0
                   /\ queueSize(last.post, last.t) = queueSize(last.pre, last.t)

\* C20 fails on IORedisLeakyBucket: getState, made with no delay, has
\* reported a size above the number of entries admitted less than interval
\* ago, of which there is at least one.
C20_RedisGetStateCountsExpired ==
    /\ algorithm = "LeakyBucket" /\ backend = "redis"
    /\ last.op = "getState"
    /\ DateNow = last.t /\ pending = EmptyBag
    /\ occupiedBefore >= 1
    /\ last.res.size > occupiedBefore

\* --------------------------------------------------------------------------
\* C21  LeakyBucket, both backends: in every reachable state, whatever the
\*      interleaving of consume and getState calls, the queue stored for the
\*      key holds at most capacity entries.
\* --------------------------------------------------------------------------

\* The entries stored for the key as they are, expired ones included.
storedQueueLength ==
    IF backend = "memory"
    THEN (IF Has(mem, Key) THEN Len(mem[Key]) ELSE 0)
    ELSE LLEN(redis, LeakyBucket_getKey(Key))

C21_QueueWithinCapacity ==
    algorithm = "LeakyBucket" => storedQueueLength <= capacity

\* A consume has just been refused on a queue that stores capacity entries.
C21_RefusedOnFullQueue ==
    /\ algorithm = "LeakyBucket"
    /\ last.op = "consume"
    /\ ~last.res.success
    /\ storedQueueLength = capacity

\* --------------------------------------------------------------------------
\* C22  Throttling, both backends: a throttle or getStatus call at time now
\*      with elapsed = now - lastAllowedAt < minInterval returns success =
\*      false, waitTime = minInterval - elapsed and nextAllowedAt =
\*      lastAllowedAt + minInterval, so that now + waitTime = nextAllowedAt,
\*      and writes nothing.
\* --------------------------------------------------------------------------

\* The time of the last allowed request as a call finds it in the store
\* (0 when the key holds nothing).
lastAllowedIn(store) ==
    IF backend = "memory" THEN lastRequestTimeOf(store, Key)
    ELSE GETnum(store, Throttling_getKey(Key))

ThrottlingCallDone ==
    /\ algorithm = "Throttling"
    /\ last.op \in {"throttle", "getStatus"}

C22_TooEarlyIsRefused ==
    (ThrottlingCallDone /\ last.t - lastAllowedIn(last.pre) < minInterval) =>
        LET elapsed == last.t - lastAllowedIn(last.pre)
        IN  /\ last.res.success = FALSE
            /\ last.res.waitTime = minInterval - elapsed
            /\ last.res.nextAllowedAt = lastAllowedIn(last.pre) + minInterval
            /\ last.t + last.res.waitTime = last.res.nextAllowedAt
            /\ last.post = last.pre

\* A call made after the last allowed request, and less than minInterval
\* after it, has been answered.
C22_CallWithinMinInterval ==
    /\ ThrottlingCallDone
    /\ last.t > lastAllowedIn(last.pre)
    /\ last.t - lastAllowedIn(last.pre) < minInterval

\* --------------------------------------------------------------------------
\* C23  Throttling, both backends: the first throttle call for a key that
\*      was never seen succeeds with waitTime = 0 and nextAllowedAt = now,
\*      and getStatus for a never-seen key reports success with waitTime = 0.
\* --------------------------------------------------------------------------

\* The store holds nothing for the key when the call reads it.
keyUnseen(store) ==
    IF backend = "memory" THEN ~Has(store, Key)
    ELSE ~Has(store, Throttling_getKey(Key))

C23_UnseenKeyIsAllowed ==
    (ThrottlingCallDone /\ keyUnseen(last.pre)) =>
        /\ last.res.success = TRUE
        /\ last.res.waitTime = 0
        /\ last.op = "throttle" => last.res.nextAllowedAt = last.t

\* A throttle call has found nothing stored for the key and recorded itself.
C23_FirstThrottleRecorded ==
    /\ ThrottlingCallDone
    /\ last.op = "throttle"
    /\ keyUnseen(last.pre)
    /\ ~keyUnseen(last.post)

\* --------------------------------------------------------------------------
\* C24  SlidingLog, both backends: an entry with timestamp ts counts at time
\*      now iff ts > now - interval; consume succeeds iff the number c of
\*      counting entries is below limit, then appends one entry and returns
\*      remaining = limit - (c + 1); otherwise it returns success = false and
\*      remaining = 0 and appends nothing.
\* --------------------------------------------------------------------------

\* The entries of the key's log that count at time t (milliseconds).
countingEntries(store, t) ==
    LET cutoffTime == (t \div 1000) - interval
    IN  IF backend = "memory"
        THEN Len(filterAfter(IF Has(store, Key) THEN store[Key] ELSE << >>,
                             cutoffTime))
        ELSE LET k == SlidingLog_getKey(Key)
             IN  IF Has(store, k)
                 THEN Cardinality({m \in DOMAIN store[k].val :
                                     store[k].val[m] > cutoffTime})
                 ELSE 0

SlidingLogConsumeDone == algorithm = "SlidingLog" /\ last.op = "consume"

C24_SlidingLogCountsAndAppends ==
    SlidingLogConsumeDone =>
        LET c == countingEntries(last.pre, last.t)
        IN  /\ last.res.success <=> c < limit
            /\ last.res.success =>
                  /\ countingEntries(last.post, last.t) = c + 1
                  /\ last.res.remaining = limit - (c + 1)
            /\ ~last.res.success =>
                  /\ countingEntries(last.post, last.t) = c
                  /\ last.res.remaining = 0

\* C24 fails on IORedisSlidingLog: a consume that repeats a uniqueRequestId
\* still in the log has succeeded, and the log counts as many entries after
\* it as before.
C24_RedisAdmittedWithoutNewEntry ==
    /\ SlidingLogConsumeDone /\ backend = "redis"
    /\ last.arg # NoArg
    /\ last.res.success
    /\ countingEntries(last.pre, last.t) >= 1
    /\ countingEntries(last.post, last.t) = countingEntries(last.pre, last.t)

\* --------------------------------------------------------------------------
\* C25  For any set of calls issued concurrently on one key of one limiter,
\*      the results returned and the final stored state are those of running
\*      the same calls, each with the timestamp it carries, one at a time in
\*      some order: every step that changes the stored state or answers a
\*      call is one whole call applied to the state its predecessor left, and
\*      no call reads a state between another call's read and its write.
\* --------------------------------------------------------------------------

\* the calls args[i..] of a Promise.all run one after the other from store
RECURSIVE oneAtATime(_, _, _)
oneAtATime(store, args, i) ==
    IF i > Len(args) THEN store
    ELSE oneAtATime(MemoryExec(MutatingOp, store, DateNow, args[i]).st, args, i + 1)

\* the only change of the state that is no call: keys leaving at their TTL
ExpiryStep ==
    /\ clock' = clock + 1
    /\ redis' = DropExpired(redis, DateNowAt(clock + 1))
    /\ mem' = mem /\ last' = last /\ pending' = pending

\* one Memory call, from the state before the step to the state after it
MemoryWholeCall ==
    /\ calls' = calls + 1
    /\ last'.op # "none"
    /\ LET r == MemoryExec(last'.op, mem, DateNow, last'.arg)
       IN  /\ last'.t = DateNow /\ last'.pre = mem
           /\ last'.post = r.st /\ last'.res = r.res
           /\ mem' = r.st

\* the calls of a Promise.all on a Memory limiter: whole calls in sequence
MemoryWholeCalls ==
    /\ calls' = calls + MaxInFlight
    /\ \E args \in [1..MaxInFlight -> BurstArgs] :
          LET before == oneAtATime(mem, SubSeq(args, 1, MaxInFlight - 1), 1)
              r == MemoryExec(MutatingOp, before, DateNow, args[MaxInFlight])
          IN  /\ last'.pre = before /\ last'.res = r.res
              /\ mem' = r.st

\* one IORedis call in flight answered: its script run on the state of the
\* store before the step, with the timestamp the request carries
RedisWholeCall ==
    \E req \in BagToSet(pending) :
        LET r == RedisExec(req, redis, DateNow)
        IN  /\ pending' = pending (-) SetToBag({req})
            /\ last'.op = req.op /\ last'.arg = req.arg /\ last'.t = req.t
            /\ last'.pre = redis /\ last'.post = r.st /\ last'.res = r.res
            /\ redis' = r.st

\* a call the client answers by itself touches neither store nor requests
LocalAnswer == redis' = redis /\ mem' = mem /\ pending' = pending

FailureAnswered ==
    /\ last'.op # "none" /\ last'.failed
    /\ \/ BagCardinality(pending') < BagCardinality(pending)
       \/ last.op = "none"
       \/ ~last.failed
       \/ last.op # last'.op
       \/ last.t # last'.t
       \/ last.pre # last'.pre

C27_StoreKeysNeverCollide ==
    last.op = "getKey" =>
        /\ last.a.name # last.b.name => last.storeKeyA # last.storeKeyB
        /\ (last.a.name = last.b.name /\ last.a.key # last.b.key) =>
              last.storeKeyA # last.storeKeyB

\* C27 fails: two instances with different names have built the same store
\* key.
C27_DifferentNamesSameStoreKey ==
    /\ last.op = "getKey"
    /\ last.a.name # last.b.name
    /\ last.storeKeyA = last.storeKeyB

\* --------------------------------------------------------------------------
\* C28  For every limiter, an operation on caller key A leaves the state of
\*      every other caller key B unchanged, so that the results of the calls
\*      on B are the same in all runs that differ only in the calls on A:
\*      every answered call leaves what is stored for the other caller as it
\*      was, and its result and its own new state are those the call has on
\*      a store that holds its own caller's state alone.
\* --------------------------------------------------------------------------

\* what the store holds for one caller key
ownKeys(store, key) ==
    IF backend = "memory" THEN {k \in DOMAIN store : k = key}
    ELSE {k \in DOMAIN store : k[2] = key}

stateOf(store, key) == [k \in ownKeys(store, key) |-> store[k]]

otherOf(key) == IF key = Key THEN OtherKey ELSE Key

MemoryCallIsLocalToKey ==
    LET k == last'.key
        alone == MemoryExecFor(k, last'.op, stateOf(mem, k), DateNow, last'.arg)
    IN  /\ stateOf(mem', otherOf(k)) = stateOf(mem, otherOf(k))
        /\ alone.res = last'.res
        /\ alone.st = stateOf(mem', k)

RedisCallIsLocalToKey ==
    \E req \in BagToSet(pending) :
        LET alone == RedisExec(req, stateOf(redis, req.key), DateNow)
        IN  /\ pending' = pending (-) SetToBag({req})
            /\ last'.key = req.key /\ last'.op = req.op
            /\ stateOf(redis', otherOf(req.key)) = stateOf(redis, otherOf(req.key))
            /\ alone.res = last'.res
            /\ alone.st = stateOf(redis', req.key)

C28_CallsTouchOwnKeyOnly ==
    [][ /\ (backend = "memory" /\ calls' > calls) => MemoryCallIsLocalToKey
        /\ (backend = "redis" /\ BagCardinality(pending') < BagCardinality(pending))
              => RedisCallIsLocalToKey ]_vars

\* A consume or throttle of the second caller has been answered and has
\* written, while the store holds state of the first caller.
C28_OtherCallerWrote ==
    /\ last.op = MutatingOp /\ last.key = OtherKey
    /\ last.post # last.pre
    /\ ownKeys(last.pre, Key) # {}
    /\ ownKeys(last.post, OtherKey) # {}

\* --------------------------------------------------------------------------
\* C29  For every IORedis limiter, the removal of a key by its TTL is not
\*      needed for correctness and never alters a decision: the run in which
\*      keys expire exactly at the TTLs the scripts set and the run in which
\*      no key ever expires return the same result for every call.
\* --------------------------------------------------------------------------

RedisCallAnswered == backend = "redis" /\ last.op # "none" /\ ~last.failed

C29_ExpiryNeverAltersResults ==
    (noRemoval.on /\ RedisCallAnswered) => last.res = last.resNoRemoval

\* C29 fails on IORedisLeakyBucket: a consume answered at the instant it was
\* issued, with no other call in flight, succeeds because the TTL removed
\* the queue, and is refused in the run in which no key expires.
C29_AdmittedOnlyThanksToExpiry ==
    /\ noRemoval.on /\ RedisCallAnswered
    /\ algorithm = "LeakyBucket" /\ last.op = "consume"
    /\ last.t = DateNow /\ pending = EmptyBag
    /\ last.res.success /\ ~last.resNoRemoval.success

\* C30: on every Memory limiter, a call made after its optional sweep
\* (cleanup, cleanupAllExpired) has run at any time, any number of times,
\* returns what it returns in the run in which the sweep is never called.
C30_SweepNeverAltersResults ==
    (Sweeping /\ last.op # "none") => last.res = last.resNoRemoval

\* a TokenBucket read, with the sweeps run, that returns another number of
\* tokens than in the run without sweeps
C30_BucketRefilledBySweep ==
    /\ Sweeping
    /\ algorithm = "TokenBucket"
    /\ last.op = "getRemainingTokens"
    /\ last.res # last.resNoRemoval

\* the constructor arguments, as the accessors are to return them: made,
\* and for Throttling the interval in seconds next to the milliseconds
configured(args) ==
    IF algorithm # "Throttling"
    THEN [x \in DOMAIN args \cup {"made"} |-> IF x = "made" THEN TRUE ELSE args[x]]
    ELSE [made |-> TRUE, minInterval |-> args.minInterval,
          minIntervalSeconds |-> args.minInterval]

\* the least whole number of seconds that is no less than ms milliseconds,
\* in thousandths of a second
wholeSecondsOver(ms) ==
    1000 * (CHOOSE n \in 0..ms : n * 1000 >= ms /\ (n - 1) * 1000 < ms)

\* C31, as the code has it: on every limiter class of either backend, the
\* constructor throws and yields no object when any of its parameters is
\* zero or negative, and with all parameters positive it returns an object
\* whose accessors return the configured values, except that
\* getMinIntervalSeconds of IORedisThrottling returns the configured
\* interval rounded up to a whole number of seconds.
C31_ConstructorValidatesRoundedUp ==
    last.op = "new" =>
        IF \E x \in DOMAIN last.args : last.args[x] <= 0
        THEN last.threw /\ last.obj = NoObject
        ELSE /\ ~last.threw
             /\ last.got =
                  IF algorithm = "Throttling" /\ backend = "redis"
                  THEN [configured(last.args) EXCEPT
                           !.minIntervalSeconds = wholeSecondsOver(last.args.minInterval)]
                  ELSE configured(last.args)

\* C31 as stated: on every limiter class of either backend, the constructor
\* throws and yields no object when any of its parameters is zero or
\* negative, and with all parameters positive it returns an object whose
\* accessors return the configured values.
C31_ConstructorValidates ==
    last.op = "new" =>
        IF \E x \in DOMAIN last.args : last.args[x] <= 0
        THEN last.threw /\ last.obj = NoObject
        ELSE ~last.threw /\ last.got = configured(last.args)

\* IORedisThrottling built with a minInterval that is no whole number of
\* seconds: getMinIntervalSeconds returns more than the configured interval
C31_SecondsRoundedUp ==
    /\ last.op = "new"
    /\ algorithm = "Throttling" /\ backend = "redis"
    /\ ~last.threw
    /\ last.got.minInterval = last.args.minInterval
    /\ last.got.minIntervalSeconds > last.args.minInterval

\* C32: MemorySlidingWindow: a getRemaining call may store the rollover it
\* computes, and every later consume or getRemaining call returns exactly
\* the result it returns in the run in which the getRemaining calls are
\* left out.
C32_StoredRolloverIsNeutral ==
    (algorithm = "SlidingWindow" /\ backend = "memory" /\ last.op # "none") =>
        last.res = last.resNoRead

\* C32 fails: a consume that follows a getRemaining made in an earlier window
\* returns a larger remaining than in the run without the getRemaining
C32_ReadDroppedOldWindow ==
    /\ algorithm = "SlidingWindow" /\ backend = "memory"
    /\ last.op = "consume"
    /\ last.res.success /\ last.resNoRead.success
    /\ last.res.remaining > last.resNoRead.remaining

\* the start, in seconds, of the window that holds the time t
windowOf(t) == getWindowStart(t \div 1000)

\* the last call is a SlidingWindow consume made when no consume with a
\* timestamp in the window just before its own had been admitted
ConsumeAfterIdleWindow ==
    /\ algorithm = "SlidingWindow" /\ last.op = "consume"
    /\ AdmittedIn(admitted, StampsOfWindow(windowOf(last.t) - interval)) = 0

\* C33: SlidingWindow on both backends: when no consume was admitted in the
\* window just before the one that holds now, the previous window counts as
\* 0: consume at now succeeds iff the count of the current window is below
\* limit.
C33_IdleWindowCountsZero ==
    ConsumeAfterIdleWindow =>
        (last.res.success <=> windowCounters(last.pre, last.t).current < limit)

\* C33 fails on MemorySlidingWindow: after a window without any admission, a
\* first consume of the current window is refused
C33_RefusedForOlderWindow ==
    /\ ConsumeAfterIdleWindow
    /\ backend = "memory"
    /\ windowCounters(last.pre, last.t).current = 0
    /\ ~last.res.success

\* the last call was made on both backends of the limiter class alg
ComparedCall(alg) ==
    /\ algorithm = alg
    /\ last.op # "none"
    /\ "resRedis" \in DOMAIN last

\* C34: MemorySlidingWindow and IORedisSlidingWindowRateLimiter of the same
\* limit and interval, given the same consume and getRemaining calls at the
\* same whole seconds with any gaps between them, return the same success
\* and remaining for every call.
C34_SlidingWindowBackendsAgree ==
    ComparedCall("SlidingWindow") => last.res = last.resRedis

\* C34 fails: after a gap of two windows Memory still weighs the old count
\* and reports a smaller remaining than Redis for the same consume
C34_MemoryWeighsOlderWindow ==
    /\ ComparedCall("SlidingWindow")
    /\ last.op = "consume"
    /\ Has(last.pre, Key)
    /\ windowOf(last.t) - last.pre[Key].currentWindowStart >= 2 * interval
    /\ last.res.remaining < last.resRedis.remaining

\* C35: MemoryTokenBucket and IORedisTokenBucketRateLimiter of the same
\* capacity, refillAmount and refillInterval, given the same consume (of an
\* amount >= 0), getRemainingTokens, addTokens and removeTokens calls at the
\* same whole seconds, return the same success, remainingTokens and
\* nextRefillAt for every consume and getRemainingTokens call.
C35_TokenBucketBackendsAgree ==
    (ComparedCall("TokenBucket") /\ last.op \in {"consume", "getRemainingTokens"}) =>
        /\ last.res.success = last.resRedis.success
        /\ last.res.remainingTokens = last.resRedis.remainingTokens
        /\ last.res.nextRefillAt = last.resRedis.nextRefillAt

\* C35 fails: with whole tokens stored on both backends, a consume of whole
\* tokens is refused by Memory and granted by Redis
C35_MemoryRefusesRedisGrants ==
    /\ ComparedCall("TokenBucket")
    /\ last.op = "consume" /\ last.arg % Unit = 0
    /\ Has(last.pre, Key) /\ last.pre[Key].tokens % Unit = 0
    /\ ~last.res.success /\ last.resRedis.success

\* C36: MemoryFixedWindow and IORedisFixedWindowRateLimiter of the same limit
\* and interval, given the same consume and getRemaining calls at the same
\* times, return the same success and remaining for every call, although
\* the Redis counter also counts the refused attempts.
C36_FixedWindowBackendsAgree ==
    ComparedCall("FixedWindow") => last.res = last.resRedis

\* C36 happens: a getRemaining is answered on both backends when the
\* Redis counter of the window has grown past limit on refused attempts
C36_ReadWithCounterPastLimit ==
    /\ ComparedCall("FixedWindow")
    /\ last.op = "getRemaining"
    /\ GETnum(last.preRedis, FixedWindow_getKey(Key, last.t)) > limit
    /\ last.pre[Key].count = limit

\* the most a bucket first used at time first can have handed out by now
grantable(first, nowMs) ==
    Tokens(capacity)
        + Tokens(refillAmount) * (((nowMs - first) \div 1000) \div refillInterval)

C38_ThrottleAtNextAllowedAtSucceeds == announced.on => announced.kept

\* a throttle made at the reported time or later has succeeded
C38_ThrottledAtReportedTime ==
    /\ announced.on /\ announced.met /\ ~announced.open
    /\ last.op = "throttle" /\ last.res.success

\* C39: IORedisSlidingWindowRateLimiter.consume and getRemaining: the window
\* index that chooses the current and previous counter keys and the time
\* passed to the script for the weight belong to the same window, also when
\* the clock crosses a window boundary between the two clock reads
C39_KeysAndTimeInSameWindow ==
    (algorithm = "SlidingWindow" /\ backend = "redis")
        => \A req \in BagToSet(pending) :
               req.KEYS = SlidingWindow_getKeys(req.key, req.t)

\* a consume answered for the counters of the window before the one its
\* time lies in
C39_ConsumeCountedInOlderWindow ==
    /\ algorithm = "SlidingWindow" /\ backend = "redis"
    /\ last.op = "consume" /\ last.res.success
    /\ Has(last.post, SlidingWindow_getKeys(Key, last.t)[2])
    /\ ~Has(last.pre, SlidingWindow_getKeys(Key, last.t)[2])

============================================================================
